---- MODULE Spec2Model ----
(***************************************************************************)
(* A model of the schemaless translation engine: the reverse inference of  *)
(* reverse.go, the forward application, shape fingerprinting, single       *)
(* flight generation and orchestration of translate.go, and the cache of   *)
(* shuffle.go.                                                             *)
(*                                                                         *)
(* Go strings are sequences of tokens.  A token is one character ("a",     *)
(* ".", "#", "1", the quote, ...) or one of a few words that the code only *)
(* ever handles as a whole ("schemaless_list", "true", "false", "null").   *)
(* A JSON value is a pair <<tag, payload>> tagged with its Go type after   *)
(* json.Unmarshal into interface{}: "str", "num", "bool", "null", "obj"    *)
(* (a function from key strings to values) and "list" (a sequence).        *)
(* The iteration order of a Go map is unspecified: every operator that     *)
(* ranges over a map takes the order as a priority sequence of keys, and   *)
(* the actions choose it freely.                                           *)
(***************************************************************************)
EXTENDS Integers, Sequences, FiniteSets, TLC

VARIABLES
    pc,         \* position of the scenario being run
    source,     \* the parsed source document (map[string]interface{})
    arg,        \* the second input: sample (targetKeys), template, path or document
    result,     \* the result of the last operation
    result2,    \* the result of the follow-up operation, when there is one
    cache,      \* shuffle.go: the entries of the cache, by key
    files,      \* the files of the root folder, by folder and name
    calls       \* how many times the external generator has been invoked

vars == <<pc, source, arg, result, result2, cache, files, calls>>

\* The cache, the files and the generator, which the operations on one
\* document in memory never touch.
store == <<cache, files, calls>>

\* A local variable of the code: val is computed once and Op is what the
\* code goes on to do with it.
Bind(val, Op(_)) == Op(val)

-----------------------------------------------------------------------------
(* Strings                                                                 *)

DOT == "."
HASH == "#"
QUOTE == "\""
BACKSLASH == "\\"
DOLLAR == "$"
SL == "schemaless_list"

Digits == <<"0", "1", "2", "3", "4", "5", "6", "7", "8", "9">>

IsDigit(c) == \E i \in 1..Len(Digits) : Digits[i] = c

DigitValue(c) == (CHOOSE i \in 1..Len(Digits) : Digits[i] = c) - 1

\* The characters of the model in byte order (the order of sort.Strings and
\* of the sorted keys of json.Marshal).
Alphabet ==
    <<"\"", "#", "$", ",", "-", ".", "0", "1", "2", "3", "4", "5", "6", "7",
      "8", "9", ":", "[", "\\", "]", "a", "b", "c", "d", "e", "f", "false",
      "g", "h", "i", "j", "k", "l", "m", "n", "null", "o", "p", "q", "r", "s",
      "schemaless_list", "t", "true", "u", "v", "w", "x", "y", "z", "{", "}">>

CharRank(c) ==
    IF \E i \in 1..Len(Alphabet) : Alphabet[i] = c
    THEN CHOOSE i \in 1..Len(Alphabet) : Alphabet[i] = c
    ELSE 0

RECURSIVE StrLess(_, _)
StrLess(a, b) ==
    IF b = <<>> THEN FALSE
    ELSE IF a = <<>> THEN TRUE
    ELSE IF Head(a) = Head(b) THEN StrLess(Tail(a), Tail(b))
    ELSE CharRank(Head(a)) < CharRank(Head(b))

RECURSIVE SplitAcc(_, _, _)
SplitAcc(s, sep, cur) ==
    IF s = <<>> THEN <<cur>>
    ELSE IF Head(s) = sep THEN <<cur>> \o SplitAcc(Tail(s), sep, <<>>)
    ELSE SplitAcc(Tail(s), sep, Append(cur, Head(s)))

\* strings.Split(s, sep) for a one-token separator
Split(s, sep) == SplitAcc(s, sep, <<>>)

RECURSIVE Join(_, _)
\* strings.Join(parts, sep)
Join(parts, sep) ==
    IF parts = <<>> THEN <<>>
    ELSE IF Len(parts) = 1 THEN parts[1]
    ELSE parts[1] \o <<sep>> \o Join(Tail(parts), sep)

\* strings.Contains(s, c) for a one-token c
Contains(s, c) == \E i \in 1..Len(s) : s[i] = c

\* strings.Contains(s, sub)
ContainsSub(s, sub) ==
    \E i \in 0..(Len(s) - Len(sub)) : SubSeq(s, i + 1, i + Len(sub)) = sub

\* strings.HasPrefix(s, p)
HasPrefix(s, p) == Len(s) >= Len(p) /\ SubSeq(s, 1, Len(p)) = p

\* strings.HasSuffix(s, p)
HasSuffix(s, p) == Len(s) >= Len(p) /\ SubSeq(s, Len(s) - Len(p) + 1, Len(s)) = p

\* strings.ReplaceAll(s, c, "") for a one-token c
RemoveToken(s, c) == SelectSeq(s, LAMBDA x : x # c)

\* strings.Count(s, c) for a one-token c
Count(s, c) == Cardinality({i \in 1..Len(s) : s[i] = c})

RECURSIVE ReplaceAll(_, _, _)
\* strings.ReplaceAll(s, old, new), old not empty
ReplaceAll(s, old, new) ==
    IF s = <<>> THEN <<>>
    ELSE IF HasPrefix(s, old) THEN new \o ReplaceAll(SubSeq(s, Len(old) + 1, Len(s)), old, new)
    ELSE <<Head(s)>> \o ReplaceAll(Tail(s), old, new)

-----------------------------------------------------------------------------
(* JSON values                                                             *)

Str(s) == <<"str", s>>
Num(n) == <<"num", n>>
Bool(b) == <<"bool", b>>
Null == <<"null", 0>>
Obj(f) == <<"obj", f>>
Lst(l) == <<"list", l>>

IsStr(x) == x[1] = "str"
IsNum(x) == x[1] = "num"
IsBool(x) == x[1] = "bool"
IsNull(x) == x[1] = "null"
IsObj(x) == x[1] = "obj"
IsLst(x) == x[1] = "list"

EmptyMap == [k \in {} |-> Null]

\* m[k] = v on a Go map
MapSet(m, k, val) == [x \in (DOMAIN m) \cup {k} |-> IF x = k THEN val ELSE m[x]]

\* The keys of a map listed in the order the priority sequence gives them.
OrderKeys(m, prio) == SelectSeq(prio, LAMBDA k : k \in DOMAIN m)

RECURSIVE SortKeys(_)
\* The keys of a set in byte order (sort.Strings, and encoding/json's
\* sorted map keys).
SortKeys(K) ==
    IF K = {} THEN <<>>
    ELSE LET least == CHOOSE k \in K : \A o \in K \ {k} : StrLess(k, o)
         IN <<least>> \o SortKeys(K \ {least})

\* All orders of a set of keys.
PermSeqs(K) ==
    {f \in [1..Cardinality(K) -> K] : \A i, j \in 1..Cardinality(K) : f[i] = f[j] => i = j}

-----------------------------------------------------------------------------
(* encoding/json on token strings                                          *)

NL == "\n"
TAB == "\t"
SP == " "

IsSpace(c) == c = NL \/ c = TAB \/ c = SP

RECURSIVE SkipWs(_)
SkipWs(s) == IF s # <<>> /\ IsSpace(Head(s)) THEN SkipWs(Tail(s)) ELSE s

RECURSIVE TrimRightWs(_)
TrimRightWs(s) ==
    IF s # <<>> /\ IsSpace(s[Len(s)]) THEN TrimRightWs(SubSeq(s, 1, Len(s) - 1)) ELSE s

\* strings.TrimSpace
TrimSpace(s) == TrimRightWs(SkipWs(s))

RECURSIVE EscapeString(_)
\* The body of a JSON string literal: quote and backslash are escaped.
EscapeString(s) ==
    IF s = <<>> THEN <<>>
    ELSE IF Head(s) = QUOTE \/ Head(s) = BACKSLASH
         THEN <<BACKSLASH, Head(s)>> \o EscapeString(Tail(s))
    ELSE IF Head(s) = NL THEN <<BACKSLASH, "n">> \o EscapeString(Tail(s))
    ELSE IF Head(s) = TAB THEN <<BACKSLASH, "t">> \o EscapeString(Tail(s))
    ELSE <<Head(s)>> \o EscapeString(Tail(s))

RECURSIVE NumTokens(_)
\* fmt.Sprintf("%v", n) and the JSON text of a non-negative whole number
NumTokens(n) ==
    IF n < 10 THEN <<Digits[n + 1]>> ELSE NumTokens(n \div 10) \o <<Digits[(n % 10) + 1]>>

Indent(d) == [i \in 1..d |-> TAB]

RECURSIVE MarshalAt(_, _, _)
RECURSIVE MarshalItems(_, _, _)
RECURSIVE MarshalFields(_, _, _, _)

\* The items of an array, separated by commas (and line breaks when pretty).
MarshalItems(l, pretty, d) ==
    IF l = <<>> THEN <<>>
    ELSE (IF pretty THEN <<NL>> \o Indent(d) ELSE <<>>)
         \o MarshalAt(Head(l), pretty, d)
         \o (IF Len(l) > 1 THEN <<",">> ELSE <<>>)
         \o MarshalItems(Tail(l), pretty, d)

\* The fields of an object in the order of the sorted keys.
MarshalFields(m, keys, pretty, d) ==
    IF keys = <<>> THEN <<>>
    ELSE (IF pretty THEN <<NL>> \o Indent(d) ELSE <<>>)
         \o <<QUOTE>> \o EscapeString(Head(keys)) \o <<QUOTE, ":">>
         \o (IF pretty THEN <<SP>> ELSE <<>>)
         \o MarshalAt(m[Head(keys)], pretty, d)
         \o (IF Len(keys) > 1 THEN <<",">> ELSE <<>>)
         \o MarshalFields(m, Tail(keys), pretty, d)

MarshalAt(x, pretty, d) ==
    CASE IsStr(x) -> <<QUOTE>> \o EscapeString(x[2]) \o <<QUOTE>>
      [] IsNum(x) -> NumTokens(x[2])
      [] IsBool(x) -> IF x[2] THEN <<"true">> ELSE <<"false">>
      [] IsNull(x) -> <<"null">>
      [] IsLst(x) ->
            IF x[2] = <<>> THEN <<"[", "]">>
            ELSE <<"[">> \o MarshalItems(x[2], pretty, d + 1)
                 \o (IF pretty THEN <<NL>> \o Indent(d) ELSE <<>>) \o <<"]">>
      [] IsObj(x) ->
            IF DOMAIN x[2] = {} THEN <<"{", "}">>
            ELSE <<"{">> \o MarshalFields(x[2], SortKeys(DOMAIN x[2]), pretty, d + 1)
                 \o (IF pretty THEN <<NL>> \o Indent(d) ELSE <<>>) \o <<"}">>

\* json.Marshal(x)
Marshal(x) == MarshalAt(x, FALSE, 0)

\* json.MarshalIndent(x, "", "\t")
MarshalIndent(x) == MarshalAt(x, TRUE, 0)

ParseFail == [ok |-> FALSE, val |-> Null, rest |-> <<>>]
ParseOk(x, rest) == [ok |-> TRUE, val |-> x, rest |-> rest]

RECURSIVE ParseString(_, _)
RECURSIVE ParseNumber(_, _)
RECURSIVE ParseValue(_)
RECURSIVE ParseItems(_, _)
RECURSIVE ParseFields(_, _)
RECURSIVE ParseField(_, _, _)
RECURSIVE ParseAt(_, _, _)

\* s follows the opening quote; acc is the text read so far.
ParseString(s, acc) ==
    IF s = <<>> THEN ParseFail
    ELSE IF Head(s) = QUOTE THEN ParseOk(Str(acc), Tail(s))
    ELSE IF Head(s) = BACKSLASH
         THEN IF Len(s) < 2 THEN ParseFail
              ELSE IF s[2] = QUOTE \/ s[2] = BACKSLASH
                   THEN ParseString(SubSeq(s, 3, Len(s)), Append(acc, s[2]))
              ELSE IF s[2] = "n" THEN ParseString(SubSeq(s, 3, Len(s)), Append(acc, NL))
              ELSE IF s[2] = "t" THEN ParseString(SubSeq(s, 3, Len(s)), Append(acc, TAB))
              ELSE ParseFail
    ELSE IF Head(s) = NL \/ Head(s) = TAB THEN ParseFail
    ELSE ParseString(Tail(s), Append(acc, Head(s)))

ParseNumber(s, n) ==
    IF s # <<>> /\ IsDigit(Head(s)) THEN ParseNumber(Tail(s), 10 * n + DigitValue(Head(s)))
    ELSE ParseOk(Num(n), s)

\* s follows "[" or a comma; acc is the items read so far.
ParseItems(s, acc) ==
    Bind(ParseValue(s), LAMBDA r :
      IF ~r.ok THEN ParseFail
      ELSE Bind(SkipWs(r.rest), LAMBDA after :
        IF after = <<>> THEN ParseFail
        ELSE IF Head(after) = "," THEN ParseItems(Tail(after), Append(acc, r.val))
        ELSE IF Head(after) = "]" THEN ParseOk(Lst(Append(acc, r.val)), Tail(after))
        ELSE ParseFail))

\* The field whose key k has been read: s2 follows the key.
ParseField(k, s2, acc) ==
    IF s2 = <<>> \/ Head(s2) # ":" THEN ParseFail
    ELSE Bind(ParseValue(Tail(s2)), LAMBDA r :
      IF ~r.ok THEN ParseFail
      ELSE Bind(SkipWs(r.rest), LAMBDA after :
        IF after = <<>> THEN ParseFail
        ELSE IF Head(after) = "," THEN ParseFields(Tail(after), MapSet(acc, k, r.val))
        ELSE IF Head(after) = "}" THEN ParseOk(Obj(MapSet(acc, k, r.val)), Tail(after))
        ELSE ParseFail))

\* s follows "{" or a comma; acc is the map read so far.
ParseFields(s, acc) ==
    Bind(SkipWs(s), LAMBDA s1 :
      IF s1 = <<>> \/ Head(s1) # QUOTE THEN ParseFail
      ELSE Bind(ParseString(Tail(s1), <<>>), LAMBDA k :
        IF ~k.ok THEN ParseFail ELSE ParseField(k.val[2], SkipWs(k.rest), acc)))

\* The value that begins with the token h; rest follows h and inner is rest
\* without its leading white space.
ParseAt(h, rest, inner) ==
    CASE h = QUOTE -> ParseString(rest, <<>>)
      [] h = "[" ->
           IF inner # <<>> /\ Head(inner) = "]"
           THEN ParseOk(Lst(<<>>), Tail(inner))
           ELSE ParseItems(rest, <<>>)
      [] h = "{" ->
           IF inner # <<>> /\ Head(inner) = "}"
           THEN ParseOk(Obj(EmptyMap), Tail(inner))
           ELSE ParseFields(rest, EmptyMap)
      [] h = "true" -> ParseOk(Bool(TRUE), rest)
      [] h = "false" -> ParseOk(Bool(FALSE), rest)
      [] h = "null" -> ParseOk(Null, rest)
      [] IsDigit(h) -> ParseNumber(<<h>> \o rest, 0)
      [] OTHER -> ParseFail

ParseValue(s) ==
    Bind(SkipWs(s), LAMBDA s1 :
      IF s1 = <<>> THEN ParseFail ELSE ParseAt(Head(s1), Tail(s1), SkipWs(Tail(s1))))

\* json.Unmarshal(text, &interface{}): the whole text must be one JSON value.
Unmarshal(text) ==
    Bind(ParseValue(text), LAMBDA r :
      IF r.ok /\ SkipWs(r.rest) = <<>> THEN [ok |-> TRUE, val |-> r.val]
      ELSE [ok |-> FALSE, val |-> Null])

\* The strings of a decoded array; an item that is not a string is reported
\* and left as the empty string.
StringItems(l) == [i \in 1..Len(l) |-> IF IsStr(l[i]) THEN l[i][2] ELSE <<>>]

\* json.Unmarshal(text, &[]string{}): a syntax error or a text that is not an
\* array leaves the slice empty.
UnmarshalStrings(text) ==
    Bind(Unmarshal(text), LAMBDA r :
      IF r.ok /\ IsLst(r.val) THEN StringItems(r.val[2]) ELSE <<>>)

-----------------------------------------------------------------------------
(* reverse.go: reverse inference                                           *)

\* A call either returns or panics (a nil dereference, an index out of
\* range, a failed type assertion).
Returned(m) == [panic |-> FALSE, m |-> m]
Panicked == [panic |-> TRUE, m |-> EmptyMap]

\* What ReverseTranslate hands back: the JSON text of the path map.
ReversedText(out) == [panic |-> FALSE, out |-> out]
ReversePanicked == [panic |-> TRUE, out |-> <<>>]

\* json.Unmarshal of that text into a map[string]string
UnmarshalPaths(text) ==
    LET u == Unmarshal(text) IN
    IF u.ok /\ IsObj(u.val)
    THEN [k \in DOMAIN u.val[2] |-> IF IsStr(u.val[2][k]) THEN u.val[2][k][2] ELSE <<>>]
    ELSE EmptyMap

\* The first key, in the map's iteration order, whose value is this string.
FindMatchingString(stringToFind, mapToSearch, prio) ==
    LET hits == SelectSeq(OrderKeys(mapToSearch, prio),
                          LAMBDA k : IsStr(mapToSearch[k]) /\ mapToSearch[k][2] = stringToFind)
    IN IF hits = <<>> THEN <<>> ELSE hits[1]

\* A string value that is decoded and walked as an object.
LooksLikeJson(val) ==
    HasPrefix(val, <<"{">>) /\ HasSuffix(val, <<"}">>) /\ Contains(val, QUOTE)

\* The map a JSON-looking string decodes to (the empty map when decoding
\* fails).
DecodedString(val) ==
    Bind(Unmarshal(val), LAMBDA u : IF u.ok /\ IsObj(u.val) THEN u.val ELSE Obj(EmptyMap))

\* The value the walk sees at a key: a JSON-looking string is replaced by
\* the map it decodes to.
DecodedValue(raw) ==
    IF IsStr(raw)
    THEN Bind(TrimSpace(raw[2]), LAMBDA val :
           IF LooksLikeJson(val) THEN DecodedString(val) ELSE raw)
    ELSE raw

\* newMap[k] = prefix + "." + v for every non-empty path v of outputMap
PrefixPaths(newMap, outputMap, prefix) ==
    [k \in DOMAIN newMap |->
        IF k \in DOMAIN outputMap /\ outputMap[k] # <<>>
        THEN prefix \o <<DOT>> \o outputMap[k]
        ELSE newMap[k]]

\* newMap[matching] = path, when the string matched a key of searchInMap
SetMatching(newMap, matching, path) ==
    IF matching = <<>> THEN newMap ELSE MapSet(newMap, matching, path)

RECURSIVE ReverseTranslate(_, _, _)
RECURSIVE ReverseKeys(_, _, _, _, _)
RECURSIVE ReverseEntry(_, _, _, _, _)
RECURSIVE ReverseList(_, _, _, _, _, _)
RECURSIVE ReverseItem(_, _, _, _, _)

\* The paths found under a nested map, recorded below prefix.
ReverseNested(nested, prefix, searchInMap, newMap, ord) ==
    Bind(ReverseTranslate(nested, searchInMap, ord), LAMBDA r :
      IF r.panic THEN Panicked
      ELSE Returned(PrefixPaths(newMap, UnmarshalPaths(r.out), prefix)))

\* One item of a list value; index is its path, key.#i.
ReverseItem(item, index, searchInMap, newMap, ord) ==
    CASE IsStr(item) ->
           IF item[2] = <<>> THEN Returned(newMap)
           ELSE Returned(SetMatching(newMap,
                                     FindMatchingString(item[2], searchInMap, ord.tgt), index))
      [] IsObj(item) -> ReverseNested(item[2], index, searchInMap, newMap, ord)
      \* reflect.TypeOf(nil).String() in the log line of the last branch
      [] IsNull(item) -> Panicked
      [] OTHER -> Returned(newMap)

\* The loop over the items of a list value; i is the zero-based index of
\* the head of list.
ReverseList(list, i, key, searchInMap, newMap, ord) ==
    IF list = <<>> THEN Returned(newMap)
    ELSE Bind(ReverseItem(Head(list), key \o <<DOT, HASH>> \o NumTokens(i),
                          searchInMap, newMap, ord), LAMBDA r :
           IF r.panic THEN Panicked
           ELSE ReverseList(Tail(list), i + 1, key, searchInMap, r.m, ord))

\* One key of sourceMap with its (decoded) value.
ReverseEntry(key, value, searchInMap, newMap, ord) ==
    CASE IsStr(value) ->
           Returned(SetMatching(newMap, FindMatchingString(value[2], searchInMap, ord.tgt), key))
      [] IsObj(value) -> ReverseNested(value[2], key, searchInMap, newMap, ord)
      [] IsLst(value) -> ReverseList(value[2], 0, key, searchInMap, newMap, ord)
      \* reflect.TypeOf(nil).String() in the log line of the last branch
      [] IsNull(value) -> Panicked
      [] OTHER -> Returned(newMap)

\* The loop over the keys of sourceMap, in the order keys lists them.
ReverseKeys(keys, sourceMap, searchInMap, newMap, ord) ==
    IF keys = <<>> THEN Returned(newMap)
    ELSE Bind(ReverseEntry(Head(keys), DecodedValue(sourceMap[Head(keys)]),
                           searchInMap, newMap, ord), LAMBDA r :
           IF r.panic THEN Panicked
           ELSE ReverseKeys(Tail(keys), sourceMap, searchInMap, r.m, ord))

\* The JSON text of a map[string]string
MarshalPaths(m) == MarshalIndent(Obj([k \in DOMAIN m |-> Str(m[k])]))

\* ReverseTranslate(sourceMap, searchInMap): the JSON text of the map that
\* holds the path found for every key of searchInMap.  ord.src orders the keys
\* of the source maps, ord.tgt those of searchInMap.
ReverseTranslate(sourceMap, searchInMap, ord) ==
    Bind(ReverseKeys(OrderKeys(sourceMap, ord.src), sourceMap, searchInMap,
                     [k \in DOMAIN searchInMap |-> <<>>], ord), LAMBDA r :
      IF r.panic THEN ReversePanicked ELSE ReversedText(MarshalPaths(r.m)))

-----------------------------------------------------------------------------
(* translate.go: path resolution                                           *)

Found(val) == [err |-> FALSE, val |-> val]
NotFound == [err |-> TRUE, val |-> <<>>]

\* The marker that tags a result holding one value per list item.
ListMarker == <<SL, "[">>

RECURSIVE recurseFindKey(_, _)
RECURSIVE FindInItems(_, _)

\* What one list item adds to the results: an object item the value found
\* in it (nothing when the path is not found), any other item itself.
ItemResult(item, parsedKey) ==
    IF IsObj(item)
    THEN Bind(recurseFindKey(item[2], parsedKey), LAMBDA r :
           IF r.err THEN <<>> ELSE <<Str(r.val)>>)
    ELSE <<item>>

\* The loop that resolves the rest of a path in every item of a list.
FindInItems(listValue, parsedKey) ==
    IF listValue = <<>> THEN <<>>
    ELSE ItemResult(Head(listValue), parsedKey) \o FindInItems(Tail(listValue), parsedKey)

\* The part of a list selector path after its first segment ("#.key" and
\* "#0.key" give "key"); a path of one segment is kept ("#0").
AfterSelector(parsedKey) ==
    IF Contains(parsedKey, DOT) THEN Join(Tail(Split(parsedKey, DOT)), DOT) ELSE parsedKey

\* The value at the end of a path, as a string.
LeafString(x) ==
    CASE IsNull(x) -> <<>>
      [] IsStr(x) -> x[2]
      [] IsObj(x) \/ IsLst(x) -> MarshalIndent(x)
      [] IsBool(x) -> IF x[2] THEN <<"true">> ELSE <<"false">>
      [] IsNum(x) -> NumTokens(x[2])

\* The result of a path that runs through a list.
ListResult(listValue, parsedKey) ==
    Bind(Marshal(Lst(FindInItems(listValue, AfterSelector(parsedKey)))), LAMBDA marshalled :
      IF Len(marshalled) > 2 THEN Found(<<SL>> \o marshalled) ELSE Found(<<>>))

\* The rest of a path below a nested map; a path that is not found is tried
\* again without its quotes.
FindInMap(mapValue, parsedKey) ==
    Bind(recurseFindKey(mapValue, parsedKey), LAMBDA r :
      IF ~r.err THEN r
      ELSE IF HasPrefix(parsedKey, <<QUOTE>>) /\ Count(parsedKey, QUOTE) > 1
           THEN recurseFindKey(mapValue, RemoveToken(parsedKey, QUOTE))
           ELSE NotFound)

\* The body of the loop for the entry of input at the first key of the path.
FindBelow(x, keys) ==
    IF Len(keys) <= 1 THEN Found(LeafString(x))
    ELSE CASE IsObj(x) -> FindInMap(x[2], Join(Tail(keys), DOT))
           [] IsLst(x) ->
                IF Len(keys[2]) > 0 /\ keys[2][1] = HASH
                THEN ListResult(x[2], Join(Tail(keys), DOT))
                ELSE NotFound
           [] OTHER -> NotFound

\* The path split at its dots: keys[1] is looked up in input.
FindKeys(input, keys) ==
    IF keys[1] \notin DOMAIN input THEN NotFound ELSE FindBelow(input[keys[1]], keys)

\* recurseFindKey(input, key, depth): depth only feeds the log lines.
recurseFindKey(input, key) == FindKeys(input, Split(key, DOT))

-----------------------------------------------------------------------------
(* translate.go: merging the per-field lists of one list entry             *)

RECURSIVE deepMerge(_, _)
\* deepMerge(dst, src): src merged into dst, nested maps merged recursively
deepMerge(dst, src) ==
    [k \in (DOMAIN dst) \cup (DOMAIN src) |->
        IF k \notin DOMAIN src THEN dst[k]
        ELSE IF IsObj(src[k]) /\ k \in DOMAIN dst /\ IsObj(dst[k])
             THEN Obj(deepMerge(dst[k][2], src[k][2]))
             ELSE src[k]]

\* copyMap(m): a copy; values of the model are not shared, so the copy is m
copyMap(m) == m

RECURSIVE NestValue(_, _, _, _)
\* The loop of setNestedMap that wraps the value in one map per path key,
\* from the last key (i = len(keys)) to the first.
NestValue(m, keys, i, nested) ==
    IF i = 0 THEN nested
    ELSE LET k == keys[i] IN
         IF k = <<HASH>> THEN NestValue(m, keys, i - 1, nested)
         ELSE IF k \in DOMAIN m /\ IsStr(m[k])
              THEN IF Contains(m[k][2], SL)
                   THEN NestValue(m, keys, i - 1, Obj([x \in {k} |-> nested]))
                   ELSE NestValue(m, keys, i - 1, nested)
              ELSE NestValue(m, keys, i - 1, Obj([x \in {k} |-> nested]))

\* setNestedMap(m, path, value): the merged map; it panics when the nested
\* value is not a map.
setNestedMap(m, path, value) ==
    Bind(NestValue(m, Split(path, DOT), Len(Split(path, DOT)), value), LAMBDA nested :
      IF IsObj(nested) THEN Returned(deepMerge(copyMap(m), nested[2])) ELSE Panicked)

\* strings.Contains(json.Marshal(m), `"key":"schemaless_list[`)
HasMarkedKey(m, key) ==
    ContainsSub(Marshal(Obj(m)), <<QUOTE>> \o key \o <<QUOTE, ":", QUOTE>> \o ListMarker)

RECURSIVE LoopKeyParts(_, _, _, _)
\* The loop that rebuilds the parent key of a nested list: i is the index
\* (from 1) of the part looked at, counter the number of "#" parts seen
\* before it.
LoopKeyParts(parts, i, counter, listDepth) ==
    IF i > Len(parts) THEN <<>>
    ELSE IF parts[i] = <<HASH>>
         THEN (IF i > 1 THEN <<parts[i - 1]>> ELSE <<>>)
              \o (IF counter = listDepth THEN <<parts[i]>> ELSE <<>>)
              \o LoopKeyParts(parts, i + 1, counter + 1, listDepth)
    ELSE (IF counter - 1 = listDepth THEN <<parts[i]>> ELSE <<>>)
         \o LoopKeyParts(parts, i + 1, counter, listDepth)

\* strings.SplitN(s, ".", 2)[1]: it panics when s has no dot
AfterFirstDot(s) == Join(Tail(Split(s, DOT)), DOT)

RECURSIVE TrimDots(_)
\* strings.Trim(s, ".")
TrimDots(s) ==
    IF s # <<>> /\ Head(s) = DOT THEN TrimDots(Tail(s))
    ELSE IF s # <<>> /\ s[Len(s)] = DOT THEN TrimDots(SubSeq(s, 1, Len(s) - 1))
    ELSE s

ZipResult(list, updated) == [panic |-> FALSE, list |-> list, updated |-> updated]
ZipPanicked == [panic |-> TRUE, list |-> <<>>, updated |-> FALSE]

\* The list with entry i replaced by the map a setNestedMap call returned.
EntrySet(list, i, r, updated) ==
    IF r.panic THEN ZipPanicked ELSE ZipResult([list EXCEPT ![i] = Obj(r.m)], updated)

\* One value of a field put into entry cnt (from 1) of the list; an entry
\* that does not hold the marker at newKey is left as it is.
ZipValue(listValue, cnt, grown, newKey, updated) ==
    IF ~IsObj(grown[cnt]) THEN ZipPanicked
    ELSE IF ~HasMarkedKey(grown[cnt][2], newKey) THEN ZipResult(grown, updated)
    ELSE EntrySet(grown, cnt, setNestedMap(grown[cnt][2], newKey, Str(listValue)), TRUE)

RECURSIVE ZipValues(_, _, _, _, _, _)
\* The loop over the values of one field: value cnt (from 1) goes into
\* entry cnt of the list, which grows by a copy of the first entry.
ZipValues(values, cnt, modificationList, firstItem, newKey, updated) ==
    IF cnt > Len(values) THEN ZipResult(modificationList, updated)
    ELSE Bind(ZipValue(values[cnt], cnt,
                       IF cnt - 1 >= Len(modificationList)
                       THEN Append(modificationList, firstItem) ELSE modificationList,
                       newKey, updated), LAMBDA z :
           IF z.panic THEN ZipPanicked
           ELSE ZipValues(values, cnt + 1, z.list, firstItem, newKey, z.updated))

\* The list with a new last entry that holds only the merged list.
AppendEntry(list, r) ==
    IF r.panic THEN ZipPanicked ELSE ZipResult(Append(list, Obj(r.m)), FALSE)

RECURSIVE PlaceInParent(_, _, _, _, _)
\* The loop over the parent list that puts the merged list into the first
\* entry that still holds the marker at childKey; i is the index from 1.
PlaceInParent(translatedInput, i, childKey, oldParentKey, modificationList) ==
    IF i > Len(translatedInput)
    THEN AppendEntry(translatedInput,
                     setNestedMap(EmptyMap, oldParentKey, Lst(modificationList)))
    ELSE IF ~IsObj(translatedInput[i]) THEN ZipPanicked
    ELSE IF ~HasMarkedKey(translatedInput[i][2], childKey)
         THEN PlaceInParent(translatedInput, i + 1, childKey, oldParentKey, modificationList)
    ELSE EntrySet(translatedInput, i,
                  setNestedMap(translatedInput[i][2], oldParentKey, Lst(modificationList)),
                  TRUE)

Handled(list, values) == [panic |-> FALSE, list |-> list, values |-> values]
HandlePanicked == [panic |-> TRUE, list |-> <<>>, values |-> EmptyMap]

\* The key a value is put at inside an entry of the merged list.
NewKey(parentKey, childKey, listDepth) ==
    AfterFirstDot((IF listDepth > 0
                   THEN Join(LoopKeyParts(Split(parentKey, DOT), 1, 0, listDepth), DOT)
                   ELSE parentKey) \o <<DOT>> \o childKey)

\* What follows the loop over the values: z is its result, and parsedValues
\* becomes entry childIndex of the merged list, which must be a map.
AfterZip(z, translatedInput, parentKey, childKey, listDepth, childIndex) ==
    IF z.panic THEN HandlePanicked
    ELSE IF ~(childIndex + 1 <= Len(z.list) /\ IsObj(z.list[childIndex + 1]))
         THEN HandlePanicked
    ELSE IF listDepth > 0
         THEN Bind(PlaceInParent(translatedInput, 1, childKey,
                                 IF HasPrefix(parentKey, <<DOT>>)
                                 THEN TrimDots(parentKey) ELSE parentKey,
                                 z.list), LAMBDA p :
                IF p.panic THEN HandlePanicked
                ELSE Handled(p.list, z.list[childIndex + 1][2]))
    ELSE Handled(z.list, z.list[childIndex + 1][2])

\* The values of a marked field put into modificationList.
Expand(values, modificationList, translatedInput, parentKey, childKey, listDepth, childIndex) ==
    IF modificationList = <<>> THEN HandlePanicked
    ELSE AfterZip(ZipValues(values, 1, modificationList, modificationList[1],
                            NewKey(parentKey, childKey, listDepth), FALSE),
                  translatedInput, parentKey, childKey, listDepth, childIndex)

\* The branch of handleMultiListItems for a field that holds a marked list:
\* the new translatedInput and parsedValues.
ExpandMarker(translatedInput, parentKey, parsedValues, childKey, val, listDepth, childIndex) ==
    Expand(UnmarshalStrings(Join(Tail(Split(val, SL)), SL)),
           IF listDepth > 0 THEN <<Obj(parsedValues)>> ELSE translatedInput,
           translatedInput, parentKey, childKey, listDepth, childIndex)

RECURSIVE handleMultiListItems(_, _, _, _, _, _)
RECURSIVE HandleChildren(_, _, _, _, _, _, _)
RECURSIVE HandleSubItems(_, _, _, _, _, _)

\* A nested call, after which the loop goes on with the same parsedValues.
HandleNested(translatedInput, newKey, val, parsedValues, listDepth, childIndex, prio) ==
    Bind(handleMultiListItems(translatedInput, newKey, val, listDepth, childIndex, prio),
         LAMBDA r : IF r.panic THEN HandlePanicked ELSE Handled(r.list, parsedValues))

\* The loop over the items of a list field; cnt is the zero-based index of
\* the head of items.
HandleSubItems(items, cnt, translatedInput, newKey, listDepth, prio) ==
    IF items = <<>> THEN Handled(translatedInput, EmptyMap)
    ELSE Bind(IF IsObj(Head(items))
              THEN HandleNested(translatedInput, newKey, Head(items)[2], EmptyMap,
                                listDepth, cnt, prio)
              ELSE Handled(translatedInput, EmptyMap), LAMBDA r :
           IF r.panic THEN HandlePanicked
           ELSE HandleSubItems(Tail(items), cnt + 1, r.list, newKey, listDepth, prio))

\* The list field of parsedValues at childKey.
HandleList(translatedInput, newKey, items, parsedValues, listDepth, prio) ==
    Bind(HandleSubItems(items, 0, translatedInput, newKey, listDepth, prio), LAMBDA r :
      IF r.panic THEN HandlePanicked ELSE Handled(r.list, parsedValues))

\* The body of the loop for the field childKey, whose value is x (nil when
\* parsedValues has been replaced by a map without the key).
HandleChild(childKey, x, translatedInput, parentKey, parsedValues, listDepth, childIndex, prio) ==
    CASE IsObj(x) ->
           HandleNested(translatedInput, parentKey \o <<DOT>> \o childKey, x[2],
                        parsedValues, listDepth, childIndex, prio)
      [] IsLst(x) ->
           HandleList(translatedInput, parentKey \o <<DOT>> \o childKey \o <<DOT, HASH>>,
                      x[2], parsedValues, listDepth + 1, prio)
      [] IsStr(x) /\ ContainsSub(x[2], ListMarker) ->
           ExpandMarker(translatedInput, parentKey, parsedValues, childKey, x[2],
                        listDepth, childIndex)
      [] OTHER -> Handled(translatedInput, parsedValues)

\* The loop over the fields of parsedValues, in the order childKeys lists
\* the keys the map had when the loop began.
HandleChildren(childKeys, translatedInput, parentKey, parsedValues, listDepth, childIndex, prio) ==
    IF childKeys = <<>> THEN Handled(translatedInput, parsedValues)
    ELSE Bind(HandleChild(Head(childKeys),
                          IF Head(childKeys) \in DOMAIN parsedValues
                          THEN parsedValues[Head(childKeys)] ELSE Null,
                          translatedInput, parentKey, parsedValues, listDepth, childIndex,
                          prio), LAMBDA r :
           IF r.panic THEN HandlePanicked
           ELSE HandleChildren(Tail(childKeys), r.list, parentKey, r.values,
                               listDepth, childIndex, prio))

\* handleMultiListItems(translatedInput, parentKey, parsedValues, listDepth,
\* childIndex): the list with the marked fields of parsedValues expanded.
handleMultiListItems(translatedInput, parentKey, parsedValues, listDepth, childIndex, prio) ==
    HandleChildren(OrderKeys(parsedValues, prio),
                   IF ~Contains(parentKey, DOT) /\ translatedInput = <<>>
                   THEN <<Obj(parsedValues)>> ELSE translatedInput,
                   parentKey, parsedValues, listDepth, childIndex, prio)

-----------------------------------------------------------------------------
(* translate.go: forward application                                       *)

\* [a-zA-Z0-9_@-]: every token of the model that is a letter, a digit or a
\* word made of letters
IsRefChar(c) ==
    c \notin {DOT, HASH, DOLLAR, QUOTE, BACKSLASH, NL, TAB, SP, ",", ":", "[", "]", "{", "}"}

\* [a-zA-Z0-9#_@-]
IsRefCharOrHash(c) == IsRefChar(c) \/ c = HASH

RECURSIVE RunOfRefChars(_, _)
\* The length of the longest prefix of s in the class (withHash: the second).
RunOfRefChars(s, withHash) ==
    IF s # <<>> /\ (IF withHash THEN IsRefCharOrHash(Head(s)) ELSE IsRefChar(Head(s)))
    THEN 1 + RunOfRefChars(Tail(s), withHash)
    ELSE 0

\* A run of length n with its optional dot; 0 when there is no run.
WithDot(s, n) == IF n = 0 THEN 0 ELSE IF Len(s) > n /\ s[n + 1] = DOT THEN n + 1 ELSE n

\* The length of a run followed by its optional dot.
GroupLen(s, withHash) == WithDot(s, RunOfRefChars(s, withHash))

RECURSIVE GroupsLen(_)
\* ([a-zA-Z0-9#_@-]+\.?){0,}
GroupsLen(s) ==
    Bind(GroupLen(s, TRUE), LAMBDA n :
      IF n = 0 THEN 0 ELSE n + GroupsLen(SubSeq(s, n + 1, Len(s))))

\* The length of the match of the reference pattern at the head of s (which
\* begins with "$"); 0 when it does not match.
RefLen(s) ==
    Bind(GroupLen(Tail(s), FALSE), LAMBDA n :
      IF n = 0 THEN 0 ELSE 1 + n + GroupsLen(SubSeq(s, n + 2, Len(s))))

RECURSIVE FindAllRefs(_)
\* regexp.FindAllString(s, -1) for the pattern
\* ([$]{1}([a-zA-Z0-9_@-]+\.?){1}([a-zA-Z0-9#_@-]+\.?){0,})
FindAllRefs(s) ==
    IF s = <<>> THEN <<>>
    ELSE Bind(IF Head(s) = DOLLAR THEN RefLen(s) ELSE 0, LAMBDA n :
           IF n > 0 THEN <<SubSeq(s, 1, n)>> \o FindAllRefs(SubSeq(s, n + 1, Len(s)))
           ELSE FindAllRefs(Tail(s)))

\* getParsedMatch(match): the path a "$" reference names
getParsedMatch(match) ==
    Bind(TrimSpace(match), LAMBDA m1 :
      Bind(IF HasPrefix(m1, <<DOLLAR>>) THEN Tail(m1) ELSE m1, LAMBDA m2 :
        IF HasSuffix(m2, <<DOT>>) THEN SubSeq(m2, 1, Len(m2) - 1) ELSE m2))

\* The path of a template string: "[]" becomes ".#" and quotes are dropped.
PathOfSpec(val) == RemoveToken(ReplaceAll(val, <<"[", "]">>, <<DOT, HASH>>), QUOTE)

RECURSIVE Interpolate(_, _, _)
\* The loop over the "$" references of a template string: each is replaced
\* everywhere by what it resolves to (nothing when it does not resolve).
Interpolate(matches, newOutput, parsedInput) ==
    IF matches = <<>> THEN newOutput
    ELSE Interpolate(Tail(matches),
                     ReplaceAll(newOutput, Head(matches),
                                recurseFindKey(parsedInput, getParsedMatch(Head(matches))).val),
                     parsedInput)

\* The output of a template entry that is a string not naming a top-level key.
StringEntry(val, parsedInput) ==
    IF Contains(val, DOT)
    THEN IF Contains(val, DOLLAR)
         THEN Str(Interpolate(FindAllRefs(PathOfSpec(val)), val, parsedInput))
         ELSE Str(recurseFindKey(parsedInput, PathOfSpec(val)).val)
    ELSE Str(val)

\* translatedInput["unmapped"] = parsedInput keeps a reference to the map
\* that the loop goes on changing; this value stands for that reference.
SourceAlias == <<"alias", 0>>

UNMAPPED == <<"u", "n", "m", "a", "p", "p", "e", "d">>

Translated(out, mod) == [st |-> "ok", out |-> out, mod |-> mod]
TranslateFailed == [st |-> "err", out |-> <<>>, mod |-> <<>>]
TranslatePanicked == [st |-> "panic", out |-> <<>>, mod |-> <<>>]

EntryDone(x) == [panic |-> FALSE, val |-> x]
EntryPanicked == [panic |-> TRUE, val |-> Null]

\* What one item of a template list does to the loop: the loop goes on with
\* newOutput and translationValue, stops (break), or panics.
ItemNext(newOutput, translationValue) ==
    [st |-> "next", newOutput |-> newOutput, tv |-> translationValue]
ItemBreak(translationValue) == [st |-> "break", newOutput |-> <<>>, tv |-> translationValue]
ItemPanicked == [st |-> "panic", newOutput |-> <<>>, tv |-> Null]

RECURSIVE runJsonTranslation(_, _, _, _)
RECURSIVE TranslateKeys(_, _, _, _, _, _)
RECURSIVE ListEntry(_, _, _, _, _, _)

\* The list a string item of a template list leaves in translationValue.
StringItem(r) == IF r.err THEN Lst(<<>>) ELSE Lst(<<Str(r.val)>>)

\* The merged list of an output that holds the list marker.
MergedItem(h) == IF h.panic THEN ItemPanicked ELSE ItemBreak(Lst(h.list))

\* An object item of a template list whose translation n went through:
\* appended is newOutput with the parsed output as its last item.
TranslatedItem(n, appended, translationValue, prio) ==
    IF ContainsSub(n.out, ListMarker)
    THEN MergedItem(handleMultiListItems(appended, <<>>, appended[Len(appended)][2],
                                         0, 0, prio))
    ELSE ItemNext(appended, translationValue)

\* An object item of a template list, translated as a template of its own.
ObjectItem(n, newOutput, translationValue, prio) ==
    IF n.st = "panic" THEN ItemPanicked
    ELSE IF n.st = "err" THEN ItemNext(newOutput, translationValue)
    ELSE TranslatedItem(n, Append(newOutput, Unmarshal(n.out).val), translationValue, prio)

\* The body of the loop over the items of a template list.
ListItem(x, newOutput, translationValue, parsedInput, inputValue, prio) ==
    CASE IsStr(x) ->
           ItemNext(newOutput, StringItem(recurseFindKey(parsedInput, PathOfSpec(x[2]))))
      [] IsObj(x) ->
           ObjectItem(runJsonTranslation(inputValue, x[2], FALSE, prio),
                      newOutput, translationValue, prio)
      [] OTHER -> ItemNext(Append(newOutput, x), translationValue)

\* The loop over the items of a template entry that is a list: the value
\* stored for the entry.  newOutput and translationValue are the loop's
\* variables of the same names.
ListEntry(items, newOutput, translationValue, parsedInput, inputValue, prio) ==
    IF items = <<>>
    THEN EntryDone(IF newOutput # <<>> THEN Lst(newOutput) ELSE translationValue)
    ELSE Bind(ListItem(Head(items), newOutput, translationValue, parsedInput,
                       inputValue, prio), LAMBDA i :
           CASE i.st = "panic" -> EntryPanicked
             [] i.st = "break" -> EntryDone(i.tv)
             [] OTHER -> ListEntry(Tail(items), i.newOutput, i.tv, parsedInput,
                                   inputValue, prio))

\* The parsed output of a nested template, or the template when it is empty.
ParsedOrTemplate(parsed, translationValue) ==
    IF DOMAIN parsed[2] = {} THEN EntryDone(translationValue) ELSE EntryDone(parsed)

\* The value stored for a template entry that is a nested template, whose
\* translation is n.
MapEntry(n, translationValue) ==
    IF n.st = "panic" THEN EntryPanicked
    ELSE IF n.st = "err" THEN EntryDone(translationValue)
    ELSE ParsedOrTemplate(Unmarshal(n.out).val, translationValue)

\* The value stored for a template entry whose value names no top-level key.
EntryValue(translationValue, parsedInput, inputValue, prio) ==
    CASE IsNum(translationValue) -> EntryDone(translationValue)
      [] IsLst(translationValue) ->
            ListEntry(translationValue[2], <<>>, translationValue, parsedInput,
                      inputValue, prio)
      [] IsObj(translationValue) ->
            MapEntry(runJsonTranslation(inputValue, translationValue[2], FALSE, prio),
                     translationValue)
      [] IsStr(translationValue) -> EntryDone(StringEntry(translationValue[2], parsedInput))
      [] OTHER -> EntryDone(translationValue)

KeysDone(parsedInput, translatedInput) ==
    [panic |-> FALSE, pin |-> parsedInput, tout |-> translatedInput]
KeysPanicked == [panic |-> TRUE, pin |-> EmptyMap, tout |-> EmptyMap]

\* The body of the loop for one template entry: the source map and the
\* output after it.
TranslateKey(translationKey, translationValue, parsedInput, translatedInput, inputValue, prio) ==
    IF IsStr(translationValue) /\ translationValue[2] \in DOMAIN parsedInput
    THEN KeysDone(MapSet(parsedInput, translationKey, parsedInput[translationValue[2]]),
                  MapSet(translatedInput, translationKey, parsedInput[translationValue[2]]))
    ELSE Bind(EntryValue(translationValue, parsedInput, inputValue, prio), LAMBDA e :
           IF e.panic THEN KeysPanicked
           ELSE KeysDone(parsedInput, MapSet(translatedInput, translationKey, e.val)))

\* The loop over the template entries in the order keys lists them.
\* parsedInput is the source map, which modifiedParsedInput aliases, and
\* translatedInput the output built so far.
TranslateKeys(keys, translation, parsedInput, translatedInput, inputValue, prio) ==
    IF keys = <<>> THEN KeysDone(parsedInput, translatedInput)
    ELSE Bind(TranslateKey(Head(keys), translation[Head(keys)], parsedInput,
                           translatedInput, inputValue, prio), LAMBDA r :
           IF r.panic THEN KeysPanicked
           ELSE TranslateKeys(Tail(keys), translation, r.pin, r.tout, inputValue, prio))

\* The two texts returned: the output, in which the reference to the source
\* map shows the map as the loop left it, and that map.
TranslatedTexts(r, modified) ==
    IF r.panic THEN TranslatePanicked
    ELSE Translated(MarshalIndent(Obj([k \in DOMAIN r.tout |->
                                         IF r.tout[k] = SourceAlias THEN modified
                                         ELSE r.tout[k]])),
                    MarshalIndent(modified))

\* The translation of a decoded source; the text "null" decodes to a nil map.
TranslateParsed(parsedInput, isNil, inputValue, translation, keepOriginal, prio) ==
    Bind(TranslateKeys(OrderKeys(translation, prio), translation, parsedInput,
                       IF keepOriginal THEN [k \in {UNMAPPED} |-> SourceAlias] ELSE EmptyMap,
                       inputValue, prio), LAMBDA r :
      TranslatedTexts(r, IF isNil \/ r.panic THEN Null ELSE Obj(r.pin)))

\* What follows json.Unmarshal(inputValue, &parsedInput).
TranslateDecoded(u, inputValue, translation, keepOriginal, prio) ==
    IF ~u.ok \/ ~(IsObj(u.val) \/ IsNull(u.val)) THEN TranslateFailed
    ELSE TranslateParsed(IF IsNull(u.val) THEN EmptyMap ELSE u.val[2], IsNull(u.val),
                         inputValue, translation, keepOriginal, prio)

\* runJsonTranslation(ctx, inputValue, translation, keepOriginal...): the
\* translated output and the modified input, both as JSON text.  prio
\* orders the entries of the templates.
runJsonTranslation(inputValue, translation, keepOriginal, prio) ==
    TranslateDecoded(Unmarshal(inputValue), inputValue, translation, keepOriginal, prio)

-----------------------------------------------------------------------------
(* translate.go: the shape of a document and its fingerprint               *)

\* A key test that looks at the wrong end of the key.
StartsWithDigit(k) == k # <<>> /\ IsDigit(Head(k))

\* strings.HasSuffix(k, "1") || ... || strings.HasSuffix(k, "0")
EndsWithDigit(k) == \E i \in 1..Len(Digits) : HasSuffix(k, <<Digits[i]>>)

Removed(out, keyToken) == [err |-> FALSE, out |-> out, keyToken |-> keyToken]
RemoveFailed(input) == [err |-> TRUE, out |-> input, keyToken |-> <<>>]

RECURSIVE RemoveJsonValues(_, _)
RECURSIVE RemoveKeys(_, _, _, _)
RECURSIVE RemoveItems(_, _)

\* The reduced document a nested call returned, decoded again; nothing when
\* the call or the decoding failed.
ReducedItem(r) ==
    IF r.err THEN <<>>
    ELSE Bind(Unmarshal(r.out), LAMBDA u : IF u.ok THEN <<u.val>> ELSE <<>>)

\* What one item of a list leaves in the reduced list.
RemoveItem(v, depth) ==
    CASE IsObj(v) -> ReducedItem(RemoveJsonValues(MarshalIndent(v), depth + 1))
      [] IsStr(v) -> <<Str(<<>>)>>
      [] IsNum(v) -> <<Num(0)>>
      [] IsBool(v) -> <<Bool(FALSE)>>
      [] OTHER -> <<>>

\* The loop over the items of a list value.
RemoveItems(items, depth) ==
    IF items = <<>> THEN <<>>
    ELSE RemoveItem(Head(items), depth) \o RemoveItems(Tail(items), depth)

KeyReduced(val, token) == [val |-> val, token |-> token]

\* A nested object after the nested call r: its reduced form, and its
\* keyToken after a dot when depth < 3 and it is not empty.
NestedReduced(x, r, depth) ==
    KeyReduced(IF r.err THEN x
               ELSE Bind(Unmarshal(r.out), LAMBDA u : IF u.ok THEN u.val ELSE x),
               IF depth < 3 /\ Len(r.keyToken) > 0 THEN <<DOT>> \o r.keyToken ELSE <<>>)

\* The body of the loop for a key that is kept: the value that replaces x
\* and what follows the key in keyToken.
RemoveKey(x, depth) ==
    CASE IsLst(x) -> KeyReduced(Lst(RemoveItems(x[2], depth)), <<>>)
      [] IsStr(x) -> KeyReduced(Str(<<>>), <<>>)
      [] IsNum(x) -> KeyReduced(Num(0), <<>>)
      [] IsBool(x) -> KeyReduced(Bool(FALSE), <<>>)
      [] IsObj(x) -> NestedReduced(x, RemoveJsonValues(MarshalIndent(x), depth + 1), depth)
      [] OTHER -> KeyReduced(x, <<>>)

\* The loop over the sorted keys; keys that end with a digit are skipped.
RemoveKeys(keys, jsonParsed, keyToken, depth) ==
    IF keys = <<>> THEN [m |-> jsonParsed, keyToken |-> keyToken]
    ELSE IF EndsWithDigit(Head(keys)) THEN RemoveKeys(Tail(keys), jsonParsed, keyToken, depth)
    ELSE Bind(RemoveKey(jsonParsed[Head(keys)], depth), LAMBDA r :
           RemoveKeys(Tail(keys), MapSet(jsonParsed, Head(keys), r.val),
                      keyToken \o Head(keys) \o r.token, depth))

\* The last loop: the keys that end with a digit are deleted.
DeleteDigitKeys(m) == [k \in {x \in DOMAIN m : ~EndsWithDigit(x)} |-> m[k]]

\* What follows the decoding of the input; isNil: the text was "null".
RemoveDecoded(jsonParsed, isNil, depth) ==
    Bind(RemoveKeys(SortKeys(DOMAIN jsonParsed), jsonParsed, <<>>, depth), LAMBDA r :
      Removed(MarshalIndent(IF isNil THEN Null ELSE Obj(DeleteDigitKeys(r.m))), r.keyToken))

\* RemoveJsonValues(input, depth): the document with its values removed, as
\* JSON text, and the keyToken of its shape.
RemoveJsonValues(input, depth) ==
    Bind(Unmarshal(input), LAMBDA u :
      IF ~u.ok \/ ~(IsObj(u.val) \/ IsNull(u.val)) THEN RemoveFailed(input)
      ELSE RemoveDecoded(IF IsNull(u.val) THEN EmptyMap ELSE u.val[2], IsNull(u.val), depth))

\* md5.Sum(keyToken) printed with %x: the digest is not computed; it is a
\* value that is the same for the same text and different for different texts.
Md5(text) == <<"md5">> \o text

\* strings.TrimSuffix(inputStandard, ".json")
TrimJson(name) ==
    IF HasSuffix(name, <<DOT, "j", "s", "o", "n">>) THEN SubSeq(name, 1, Len(name) - 5) ELSE name

\* keyTokenFile in Translate: prefix, standard, "-", digest of the keyToken
KeyTokenFile(filenamePrefix, inputStandard, keyToken) ==
    filenamePrefix \o TrimJson(inputStandard) \o <<"-">> \o Md5(keyToken)

-----------------------------------------------------------------------------
(* translate.go: templates, files and cache keys of Translate              *)

\* The token of the grave accent, three of which make a code fence.
BACKTICK == "grave"
FENCE == <<BACKTICK, BACKTICK, BACKTICK>>
FENCEJSON == FENCE \o <<"j", "s", "o", "n">>

\* strings.TrimPrefix and strings.TrimSuffix
TrimPrefix(text, prefix) ==
    IF HasPrefix(text, prefix) THEN SubSeq(text, Len(prefix) + 1, Len(text)) ELSE text
TrimSuffix(text, suffix) ==
    IF HasSuffix(text, suffix) THEN SubSeq(text, 1, Len(text) - Len(suffix)) ELSE text

\* The text between the fences, when the trimmed text starts with a fence.
Unfenced(text) ==
    TrimSpace(TrimSuffix(IF ContainsSub(text, FENCEJSON) THEN TrimPrefix(text, FENCEJSON)
                         ELSE TrimPrefix(text, FENCE),
                         FENCE))

\* FixTranslationStructure(gptTranslated)
FixTranslationStructure(gptTranslated) ==
    Bind(TrimSpace(gptTranslated), LAMBDA text :
      IF HasPrefix(text, FENCE) THEN Unfenced(text) ELSE text)

\* The file names under the root folder.
InputFile(inputStandard) == <<"input/">> \o inputStandard
QueryFile(inputStandard) == <<"queries/">> \o inputStandard
\* A file name of SaveTranslation without the suffix.
TranslationFileNoSuffix(inputStandard) == <<"translation_output/">> \o inputStandard

TranslationFile(inputStandard) == <<"translation_output/">> \o inputStandard \o <<".json">>
ExistingStructureFile(inputStandard) == <<"translation_output/">> \o inputStandard \o <<".json">>
StandardFile(inputStandard) == <<"standards/">> \o TrimJson(inputStandard) \o <<".json">>

\* userQuery of GptTranslate: the standard and the input data format
UserQuery(standardFormat, inputDataFormat) ==
    <<"Standard:">> \o standardFormat \o <<"User Input:">> \o inputDataFormat

\* cacheKey and cacheKeyStarted of GptTranslate; the organisation is empty
\* and the system message is the same for every query.
CacheKey(userQuery) == <<"translationquery-">> \o Md5(<<"system">> \o userQuery)
CacheKeyStarted(userQuery) == CacheKey(userQuery) \o <<"-started">>

\* The key of SetStructureCache and GetStructureFromCache
StructureKey(inputKeyToken) == Md5(inputKeyToken)

\* The standard names a substandard: "[name]"
IsSubStandard(standardFormat) ==
    Bind(TrimSpace(standardFormat), LAMBDA trimmedStandard :
      Len(trimmedStandard) > 2 /\ HasPrefix(trimmedStandard, <<"[">>)
        /\ HasSuffix(trimmedStandard, <<"]">>))

\* strings.Contains(fmt.Sprintf("%s", err), "OPENAI"), for the errors that
\* GptTranslate returns
MentionsOpenAI(err) == err = "OPENAI_API_KEY not set"

maxInputSize == 5000
maxIter == 6
maxTries == 5

-----------------------------------------------------------------------------
(* reverse.go: MapValueToLocation                                          *)

Placed(m) == [panic |-> FALSE, map |-> m]
PlacePanicked == [panic |-> TRUE, map |-> EmptyMap]

RECURSIVE ScanDigits(_, _)
\* The number that the leading digits of s spell, after the digits of acc.
ScanDigits(s, acc) ==
    IF s # <<>> /\ IsDigit(Head(s)) THEN ScanDigits(Tail(s), 10 * acc + DigitValue(Head(s)))
    ELSE acc

\* fmt.Sscanf(text, "%d", &n): the number at the start of the text, and an
\* error when the text does not start with a digit.
Sscanf(text) ==
    IF text # <<>> /\ IsDigit(Head(text)) THEN [err |-> FALSE, n |-> ScanDigits(text, 0)]
    ELSE [err |-> TRUE, n |-> 0]

Indexes(set) == [bad |-> FALSE, set |-> set]
BadMapping == [bad |-> TRUE, set |-> {}]

\* The start of a range: the number, or 0 for "" and "min".
StartIndex(startIndex) ==
    Bind(Sscanf(startIndex), LAMBDA r :
      IF ~r.err THEN r
      ELSE IF Len(startIndex) = 0 \/ startIndex = <<"min">> THEN [err |-> FALSE, n |-> 0]
      ELSE r)

\* The end of a range: the number, or the last index for "" and "max".
EndIndex(endIndex, length) ==
    Bind(Sscanf(endIndex), LAMBDA r :
      IF ~r.err THEN r
      ELSE IF Len(endIndex) = 0 \/ endIndex = <<"max">> THEN [err |-> FALSE, n |-> length - 1]
      ELSE r)

\* The indexes from start to end, which were scanned from the two parts.
RangeOf(from, to) ==
    IF from.err \/ to.err THEN BadMapping ELSE Indexes({i \in Int : FALSE} \cup (from.n)..(to.n))

\* The indexes of "#N-M"
RangeIndexes(parts, length) ==
    IF Len(parts) # 2 THEN BadMapping
    ELSE RangeOf(StartIndex(TrimPrefix(parts[1], <<HASH>>)),
                 EndIndex(TrimPrefix(parts[2], <<HASH>>), length))

\* The single index of "#N", or of "#min" and "#max"
OneIndex(index, length) ==
    Bind(Sscanf(index), LAMBDA r :
      IF ~r.err THEN Indexes({r.n})
      ELSE IF index = <<"min">> THEN Indexes({0})
      ELSE IF index = <<"max">> THEN Indexes({length - 1})
      ELSE BadMapping)

\* correctIndexes: the indexes (from 0) of the items to write into, for the
\* key locationParts[0] and the segment locationParts[1] that follows it.
CorrectIndexes(locationParts, length) ==
    IF ~HasPrefix(locationParts[2], <<HASH>>) THEN Indexes(0..(length - 1))
    ELSE IF locationParts[2] = <<HASH>> THEN Indexes(0..(length - 1))
    ELSE IF Contains(locationParts[2], "-") THEN RangeIndexes(Split(locationParts[2], "-"), length)
    ELSE IF Contains(locationParts[1], HASH)
         THEN OneIndex(TrimPrefix(locationParts[2], <<HASH>>), length)
    ELSE Indexes(0..(length - 1))

RECURSIVE MapValueToLocation(_, _, _)
RECURSIVE PlaceInItems(_, _, _, _, _, _)

\* The location below a selected item: the parts after the key, without the
\* selector when there is one.
SubLocation(splitLocationParts) ==
    Join(IF Contains(splitLocationParts[1], HASH) THEN Tail(splitLocationParts)
         ELSE splitLocationParts, DOT)

\* loopMap with what a selected object item leaves in it: nothing when only
\* one part follows the key.
PlaceInObject(loopMap, subValue, locationParts, value) ==
    IF Len(locationParts) - 1 < 2 THEN Placed(loopMap)
    ELSE Bind(MapValueToLocation(subValue, SubLocation(Tail(locationParts)), value), LAMBDA r :
           IF r.panic THEN PlacePanicked ELSE Placed(Append(loopMap, Obj(r.map))))

\* One round of the loop over the items of the list.
PlaceInItem(loopMap, v, selected, locationParts, value) ==
    IF ~selected THEN Placed(loopMap \o <<v>>)
    ELSE IF IsObj(v) THEN PlaceInObject(loopMap, v[2], locationParts, value)
    ELSE Placed(loopMap \o <<v>>)

\* The loop over the items of the list, from item i on (counted from 1).
PlaceInItems(val, i, correctIndexes, loopMap, locationParts, value) ==
    IF i > Len(val) THEN Placed(loopMap)
    ELSE Bind(PlaceInItem(loopMap, val[i], (i - 1) \in correctIndexes, locationParts, value),
              LAMBDA r : IF r.panic THEN r
                         ELSE PlaceInItems(val, i + 1, correctIndexes, r.map, locationParts, value))

\* The branch for a list under the key.
PlaceInList(mapToSearch, key, val, indexes, locationParts, value) ==
    IF indexes.bad THEN Placed(mapToSearch)
    ELSE Bind(PlaceInItems(val, 1, indexes.set, <<>>, locationParts, value), LAMBDA r :
           IF r.panic THEN r ELSE Placed(MapSet(mapToSearch, key, Lst(r.map))))

\* The branch for an object under the key.
PlaceInMap(mapToSearch, key, newMap, locationParts, value) ==
    Bind(MapValueToLocation(newMap, Join(Tail(locationParts), DOT), value), LAMBDA r :
      IF r.panic THEN r ELSE Placed(MapSet(mapToSearch, key, Obj(r.map))))

\* The body of the loop for the key that is locationParts[0].
PlaceAtKey(mapToSearch, key, mapValue, locationParts, value) ==
    IF Len(locationParts) = 1 THEN Placed(MapSet(mapToSearch, key, Str(value)))
    ELSE CASE IsObj(mapValue) -> PlaceInMap(mapToSearch, key, mapValue[2], locationParts, value)
           [] IsLst(mapValue) ->
                PlaceInList(mapToSearch, key, mapValue[2],
                            CorrectIndexes(locationParts, Len(mapValue[2])), locationParts, value)
           [] IsNull(mapValue) -> PlacePanicked
           [] OTHER -> Placed(mapToSearch)

\* MapValueToLocation(mapToSearch, location, value): the map with the value
\* at the location; reflect.TypeOf(nil).String() panics.
MapValueToLocation(mapToSearch, location, value) ==
    Bind(Split(location, DOT), LAMBDA locationParts :
      IF locationParts[1] \notin DOMAIN mapToSearch THEN Placed(mapToSearch)
      ELSE PlaceAtKey(mapToSearch, locationParts[1], mapToSearch[locationParts[1]],
                      locationParts, value))

-----------------------------------------------------------------------------
(* shuffle.go: the cache in memcached, with values split over several keys *)

\* maxCacheSize, the most bytes of one entry, scaled down to the lengths of
\* the values of the model (1020000 in shuffle.go).
maxCacheSize == 2

comparisonNumber == 50

\* fmt.Sprintf("%s_%d", name, keyCount)
ChunkKey(name, keyCount) == name \o <<"_">> \o NumTokens(keyCount)

\* strings.Replace(name, " ", "_", -1)
CacheName(name) == ReplaceAll(name, <<SP>>, <<"_">>)

RECURSIVE SetChunks(_, _, _, _, _, _, _, _)
\* The loop of SetCache that sets one entry per chunk; min is len(data)
\* when nextStep is beyond it.
SetChunks(mc, name, keyname, data, currentChunk, nextStep, keyAmount, totalAdded) ==
    Bind(IF Len(data) < nextStep THEN Len(data) ELSE nextStep, LAMBDA min :
      Bind(MapSet(mc, keyname, SubSeq(data, currentChunk + 1, min)), LAMBDA set :
        IF totalAdded + maxCacheSize > Len(data) THEN set
        ELSE SetChunks(set, name, ChunkKey(name, keyAmount + 1), data, min,
                       min + maxCacheSize, keyAmount + 1, totalAdded + maxCacheSize)))

\* SetCache(ctx, name, data, expiration) with memcached: the entries after
\* the call, and the error for a value that is too large.
SetCacheNamed(mc, name, data) ==
    IF Len(data) > maxCacheSize * comparisonNumber THEN [err |-> TRUE, mc |-> mc]
    ELSE IF Len(data) > maxCacheSize
         THEN [err |-> FALSE, mc |-> SetChunks(mc, name, name, data, 0, maxCacheSize, 0, 0)]
    ELSE [err |-> FALSE, mc |-> MapSet(mc, name, data)]

SetCache(mc, name, data) ==
    IF Len(name) = 0 THEN [err |-> FALSE, mc |-> mc]
    ELSE SetCacheNamed(mc, CacheName(name), data)

RECURSIVE GetChunks(_, _, _, _)
\* The loop of GetCache that appends the entries name_1, name_2, ... for as
\* long as they are there and full.
GetChunks(mc, name, keyCount, totalData) ==
    IF ChunkKey(name, keyCount) \notin DOMAIN mc THEN totalData
    ELSE IF Len(mc[ChunkKey(name, keyCount)]) # maxCacheSize
         THEN totalData \o mc[ChunkKey(name, keyCount)]
    ELSE GetChunks(mc, name, keyCount + 1, totalData \o mc[ChunkKey(name, keyCount)])

GetCacheNamed(mc, name) ==
    IF name \notin DOMAIN mc THEN [err |-> TRUE, data |-> <<>>]
    ELSE IF Len(mc[name]) = maxCacheSize
         THEN [err |-> FALSE, data |-> GetChunks(mc, name, 1, mc[name])]
    ELSE [err |-> FALSE, data |-> mc[name]]

\* GetCache(ctx, name) with memcached
GetCache(mc, name) ==
    IF Len(name) = 0 THEN [err |-> FALSE, data |-> <<>>]
    ELSE GetCacheNamed(mc, CacheName(name))

-----------------------------------------------------------------------------
(* translate.go: handleSubStandard                                         *)

\* skipAfterCount, after which no more list items are started, scaled down
\* to the lists of the model (50 in translate.go).
skipAfterCount == 1

RECURSIVE FirstList(_, _)
\* The range over mapJson that takes the first value that is a list; the
\* list stays empty when there is none.
FirstList(mapJson, keys) ==
    IF keys = <<>> THEN <<>>
    ELSE IF IsLst(mapJson[Head(keys)]) THEN mapJson[Head(keys)][2]
    ELSE FirstList(mapJson, Tail(keys))

\* listJson of handleSubStandard: returnJson decoded as a list, or the first
\* list of returnJson decoded as a map.
ListJsonOf(u, prio) ==
    IF ~u.ok THEN [err |-> TRUE, list |-> <<>>]
    ELSE IF IsLst(u.val) THEN [err |-> FALSE, list |-> u.val[2]]
    ELSE IF IsNull(u.val) THEN [err |-> FALSE, list |-> <<>>]
    ELSE IF IsObj(u.val) THEN [err |-> FALSE, list |-> FirstList(u.val[2], OrderKeys(u.val[2], prio))]
    ELSE [err |-> TRUE, list |-> <<>>]

ListJson(returnJson, prio) == ListJsonOf(Unmarshal(returnJson), prio)

RECURSIVE JoinOutputs(_, _)
\* The outputs from the cnt-th on, with a comma before all but the first.
JoinOutputs(parsedOutput, cnt) ==
    IF cnt > Len(parsedOutput) THEN <<>>
    ELSE (IF cnt > 1 THEN <<",">> ELSE <<>>) \o parsedOutput[cnt].out
         \o JoinOutputs(parsedOutput, cnt + 1)

\* finalOutput of handleSubStandard
FinalOutput(parsedOutput) == <<"[">> \o JoinOutputs(parsedOutput, 1) \o <<"]">>

-----------------------------------------------------------------------------
(* Bounded inputs                                                          *)

\* The longest list in a source document.
MaxListLen == 2

KA == <<"a">>
KB == <<"b">>
KC == <<"c">>
KK == <<"k">>
VX == <<"x">>
VY == <<"y">>

SeqsUpTo(S, n) == UNION {[1..m -> S] : m \in 0..n}

\* One-key objects with key k and a value of S.
Wrap(k, S) == {Obj([x \in {k} |-> val]) : val \in S}

-----------------------------------------------------------------------------
(* Reverse inference followed by forward application of what it inferred   *)

RevLeaves == {Str(VX), Str(VY), Null}
RevItems == RevLeaves \cup Wrap(KC, RevLeaves)
RevLists == {Lst(q) : q \in SeqsUpTo(RevItems, MaxListLen)}
RevValues == RevLeaves \cup RevLists \cup Wrap(KC, RevLeaves \cup RevLists)

\* Source documents {"a": value, "b": leaf}.
RevSources == {[k \in {KA, KB} |-> IF k = KA THEN val ELSE leaf] :
                 val \in RevValues, leaf \in RevLeaves}

\* Samples of the target: {"k": v} and {"k": v, "a": w}.
RevSamples ==
    {[k \in {KK} |-> Str(val)] : val \in {VX, VY}}
    \cup {[k \in {KK, KA} |-> IF k = KK THEN Str(val) ELSE Str(w)] : val \in {VX, VY}, w \in {VX, VY}}

RevOrders == [src : PermSeqs({KA, KB, KC}), tgt : PermSeqs({KK, KA})]

InitReverse ==
    /\ pc = "start"
    /\ source \in RevSources
    /\ arg \in RevSamples
    /\ result = Null
    /\ result2 = Null
    /\ cache = <<>> /\ files = <<>> /\ calls = 0

\* ReverseTranslate(source, sample), under one iteration order of the maps.
Infer ==
    /\ pc = "start"
    /\ \E ord \in RevOrders : result' = ReverseTranslate(source, arg, ord)
    /\ pc' = "inferred"
    /\ UNCHANGED <<source, arg, result2>>
    /\ UNCHANGED store

\* The template a caller decodes from the text ReverseTranslate returned.
InferredTemplate == Unmarshal(result.out).val[2]

\* runJsonTranslation of the same source with the inferred template.
Apply ==
    /\ pc = "inferred"
    /\ ~result.panic
    /\ \E prio \in PermSeqs({KK, KA}) :
          result2' = runJsonTranslation(Marshal(Obj(source)), InferredTemplate, FALSE, prio)
    /\ pc' = "applied"
    /\ UNCHANGED <<source, arg, result>>
    /\ UNCHANGED store

NextReverse == Infer \/ Apply

SpecReverse == InitReverse /\ [][NextReverse]_vars

\* The paths ReverseTranslate returned, and the output of the forward pass.
InferredPaths == UnmarshalPaths(result.out)
ForwardOutput == Unmarshal(result2.out).val[2]

RECURSIVE LeafPathsIn(_, _, _)
\* The dot-paths, below prefix, of the string leaves of x that hold s: object
\* keys joined by ".", the item at zero-based index i of a list as #i.
LeafPathsIn(x, prefix, s) ==
    CASE IsStr(x) -> IF x[2] = s THEN {prefix} ELSE {}
      [] IsObj(x) -> UNION {LeafPathsIn(x[2][k], prefix \o <<DOT>> \o k, s) : k \in DOMAIN x[2]}
      [] IsLst(x) -> UNION {LeafPathsIn(x[2][i], prefix \o <<DOT, HASH>> \o NumTokens(i - 1), s) :
                              i \in 1..Len(x[2])}
      [] OTHER -> {}

\* The dot-paths of the string leaves of the document m that hold s.
LeafPaths(m, s) == UNION {LeafPathsIn(m[k], k, s) : k \in DOMAIN m}

\* Every sample value occurs at exactly one string leaf of the source, and no
\* two sample keys hold the same value.
UniqueLeaves ==
    /\ \A k \in DOMAIN arg : Cardinality(LeafPaths(source, arg[k][2])) = 1
    /\ \A k, m \in DOMAIN arg : arg[k] = arg[m] => k = m

\* C3: Round-trip.  Applying the template inferred from (sample, source) to
\* the same source yields, for every sample key with a non-empty sample value
\* for which a path was inferred, exactly the sample value, whether the path
\* is a top-level key, a nested key path or a list-index path.  (Stated for
\* samples whose keys are not keys of the source.)
C3_RoundTrip ==
    (pc = "applied" /\ DOMAIN arg \cap DOMAIN source = {}) =>
        /\ result2.st = "ok"
        /\ \A k \in DOMAIN arg :
              (arg[k][2] # <<>> /\ InferredPaths[k] # <<>>) =>
                  (k \in DOMAIN ForwardOutput /\ ForwardOutput[k] = arg[k])

\* C4: Reverse inference path discovery.  For a source in which each target
\* value occurs at exactly one string leaf, ReverseTranslate maps each target
\* key to the dot-path of that leaf.
C4_PathDiscovery ==
    (pc # "start" /\ UniqueLeaves) =>
        /\ ~result.panic
        /\ \A k \in DOMAIN arg : InferredPaths[k] \in LeafPaths(source, arg[k][2])

\* C5: Reverse inference totality.  For every source and every targetKeys
\* map ReverseTranslate returns a map whose key set is exactly that of
\* targetKeys, and a key with no matching leaf is mapped to the empty string.
C5_ReverseTotality ==
    pc # "start" =>
        /\ ~result.panic
        /\ DOMAIN InferredPaths = DOMAIN arg
        /\ \A k \in DOMAIN arg : LeafPaths(source, arg[k][2]) = {} => InferredPaths[k] = <<>>

RECURSIVE LeafWalk(_, _, _)
RECURSIVE LeafWalkKeys(_, _, _, _)
RECURSIVE LeafWalkItems(_, _, _, _)
\* The string leaves of x in the order of the walk, each with its dot-path
\* below prefix: the keys of an object in the order keys lists them, the
\* items of a list by index.
LeafWalk(x, prefix, keys) ==
    CASE IsStr(x) -> <<[path |-> prefix, val |-> x[2]]>>
      [] IsObj(x) -> LeafWalkKeys(x[2], OrderKeys(x[2], keys), prefix, keys)
      [] IsLst(x) -> LeafWalkItems(x[2], 1, prefix, keys)
      [] OTHER -> <<>>

LeafWalkKeys(m, todo, prefix, keys) ==
    IF todo = <<>> THEN <<>>
    ELSE LeafWalk(m[Head(todo)], IF prefix = <<>> THEN Head(todo) ELSE prefix \o <<DOT>> \o Head(todo), keys)
         \o LeafWalkKeys(m, Tail(todo), prefix, keys)

LeafWalkItems(items, i, prefix, keys) ==
    IF i > Len(items) THEN <<>>
    ELSE LeafWalk(items[i], prefix \o <<DOT, HASH>> \o NumTokens(i - 1), keys)
         \o LeafWalkItems(items, i + 1, prefix, keys)

\* The path of the first leaf of the walk that holds the value of the sample
\* key k, empty when there is none.
FirstMatch(k, keys) ==
    Bind(SelectSeq(LeafWalk(Obj(source), <<>>, keys), LAMBDA leaf : leaf.val = arg[k][2]),
         LAMBDA hits : IF hits = <<>> THEN <<>> ELSE hits[1].path)

\* C23: First match wins in reverse inference.  When a target value occurs at
\* more than one leaf of the source tree, the path recorded for that target
\* key is the path of the first matching leaf in the walk; a later matching
\* leaf never overwrites a path already recorded for that key.  Stated for
\* samples of one key, in every order of the source keys that gives the
\* result.
C23_FirstMatchWins ==
    (pc # "start" /\ ~result.panic /\ DOMAIN arg = {KK}) =>
        \A ord \in RevOrders :
           result = ReverseTranslate(source, arg, ord) =>
               InferredPaths[KK] = FirstMatch(KK, ord.src)

-----------------------------------------------------------------------------
(* Forward application of a template to a source                           *)

KD == <<"d">>
KF == <<"f">>
KG == <<"g">>
KM == <<"m">>

\* A path: keys joined by dots.
Path(keys) == Join(keys, DOT)

\* The two-key map {k1: v1, k2: v2}.
Pair(k1, v1, k2, v2) == [k \in {k1, k2} |-> IF k = k1 THEN v1 ELSE v2]

\* Items of the source list: {"c": leaf, "d": leaf}.
FwdItems ==
    {Obj(Pair(KC, Str(v), KD, Str(w))) : v, w \in {VX, VY}}
    \cup {Obj(Pair(KC, Num(5), KD, Str(VX)))}

FwdLeaves == {Str(VX), Str(VY), Num(5)}

FwdValues ==
    FwdLeaves
    \cup Wrap(KC, FwdLeaves)
    \cup Wrap(KC, Wrap(KD, FwdLeaves))
    \cup {Lst(q) : q \in SeqsUpTo(FwdItems, MaxListLen)}

\* Source documents {"a": value, "b": string}.
FwdSources == {Pair(KA, val, KB, Str(w)) : val \in FwdValues, w \in {VX, VY}}

\* Template values that are strings or numbers: a top-level key, nested key
\* paths, a path that does not resolve, a path through the list, a literal.
FwdSpecs ==
    {Str(KB), Str(Path(<<KA, KC>>)), Str(Path(<<KA, KC, KD>>)), Str(Path(<<KA, <<"z">>>>)),
     Str(Path(<<KA, <<HASH>>, KC>>)), Str(<<"l", "i", "t">>), Num(5)}

\* Template values that are lists or nested templates.
FwdNested ==
    {Lst(<<Obj(Pair(KF, Str(Path(<<KA, <<HASH>>, KC>>)), KG, Str(Path(<<KA, <<HASH>>, KD>>))))>>),
     Lst(<<Obj([k \in {KF} |-> Str(Path(<<KA, <<HASH>>, KC>>))])>>),
     Lst(<<Num(5), Obj([k \in {KF} |-> Str(Path(<<KA, <<HASH>>, KC>>))])>>),
     Lst(<<Str(Path(<<KA, KC>>))>>),
     Obj([k \in {KF} |-> Str(Path(<<KA, KC>>))])}

\* Templates {"k": spec} and {"k": spec, "a": spec}.
FwdTemplates ==
    {[k \in {KK} |-> spec] : spec \in FwdSpecs \cup FwdNested}
    \cup {Pair(KK, spec, KA, other) :
            spec \in FwdSpecs, other \in {Str(KB), Str(Path(<<KA, <<"z">>>>))}}

InitForward ==
    /\ pc = "start"
    /\ source \in FwdSources
    /\ arg \in FwdTemplates
    /\ result = Null
    /\ result2 = Null
    /\ cache = <<>> /\ files = <<>> /\ calls = 0

\* runJsonTranslation(source, template, keepOriginal) under one iteration
\* order of the template maps; result2 records keepOriginal.
Translate ==
    /\ pc = "start"
    /\ \E prio \in PermSeqs({KK, KA}), keepOriginal \in BOOLEAN :
          /\ result' = runJsonTranslation(Marshal(Obj(source)), arg, keepOriginal,
                                          prio \o <<KF, KG>>)
          /\ result2' = Bool(keepOriginal)
    /\ pc' = "translated"
    /\ UNCHANGED <<source, arg>>
    /\ UNCHANGED store

NextForward == Translate

SpecForward == InitForward /\ [][NextForward]_vars

\* The parsed output of the translation.
TranslatedOutput == Unmarshal(result.out).val[2]

RECURSIVE ValueAt(_, _)
\* The value at the end of a sequence of object keys in x; Null stands for
\* "no such path".
ValueAt(x, keys) ==
    IF keys = <<>> THEN x
    ELSE IF IsObj(x) /\ Head(keys) \in DOMAIN x[2] THEN ValueAt(x[2][Head(keys)], Tail(keys))
    ELSE Null

\* The template entry at key k is a path of object keys that exists in the
\* source and ends at a string leaf.
IsKeyPath(k) ==
    /\ IsStr(arg[k])
    /\ ~Contains(arg[k][2], HASH)
    /\ IsStr(ValueAt(Obj(source), Split(arg[k][2], DOT)))

\* C7: Forward key-path resolution.  For a template entry whose spec is a
\* dot-joined sequence of object keys that exists in the source and ends at a
\* string leaf, the output holds that leaf's value at the target key.
C7_KeyPathResolution ==
    pc = "translated" =>
        \A k \in DOMAIN arg :
            IsKeyPath(k) =>
                /\ result.st = "ok"
                /\ k \in DOMAIN TranslatedOutput
                /\ TranslatedOutput[k] = ValueAt(Obj(source), Split(arg[k][2], DOT))

\* C8: Per-field error isolation.  For every template and every source
\* object runJsonTranslation returns without error, and its output holds an
\* entry for every template key and no other key except "unmapped".
C8_ErrorIsolation ==
    pc = "translated" =>
        /\ result.st = "ok"
        /\ DOMAIN TranslatedOutput =
              DOMAIN arg \cup (IF result2[2] THEN {UNMAPPED} ELSE {})

\* The template entry at key k is a list of one object whose fields are all
\* paths a.#.x into the source list a.
IsAlignedList(k) ==
    /\ IsLst(arg[k]) /\ Len(arg[k][2]) = 1 /\ IsObj(arg[k][2][1])
    /\ IsLst(source[KA])

\* The list the claim expects at k: one object per item of the source list.
AlignedList(k) ==
    Lst([i \in 1..Len(source[KA][2]) |->
           Obj([f \in DOMAIN arg[k][2][1][2] |->
                  source[KA][2][i][2][Split(arg[k][2][1][2][f][2], DOT)[3]]])])

\* C9: List alignment.  When a template list entry is an object whose fields
\* are each a path a.#.x into the same source list of n objects, the output
\* at that key is one list of n objects whose i-th object holds, at every
\* field, the value of x in the i-th source item.
C9_ListAlignment ==
    pc = "translated" =>
        \A k \in DOMAIN arg :
            IsAlignedList(k) =>
                /\ result.st = "ok"
                /\ k \in DOMAIN TranslatedOutput
                /\ TranslatedOutput[k] = AlignedList(k)

\* The template is {"k": path} and the path is a sequence of object keys
\* that exists in the source.
IsSinglePath ==
    /\ DOMAIN arg = {KK}
    /\ IsStr(arg[KK])
    /\ ~Contains(arg[KK][2], HASH)
    /\ ValueAt(Obj(source), Split(arg[KK][2], DOT)) # Null

\* C21: Native types.  When a template spec string consists entirely of one
\* path reference, the forward output at that target key is the resolved
\* source value in its native type (number, boolean, object or array), not
\* its string rendering.
C21_NativeTypes ==
    (pc = "translated" /\ IsSinglePath) =>
        /\ result.st = "ok"
        /\ TranslatedOutput[KK] = ValueAt(Obj(source), Split(arg[KK][2], DOT))

RECURSIVE KeyAbsent(_, _)
\* The walk of the keys through the objects of x comes to an object that
\* does not have the next key.
KeyAbsent(x, keys) ==
    /\ keys # <<>> /\ IsObj(x)
    /\ (Head(keys) \in DOMAIN x[2] => KeyAbsent(x[2][Head(keys)], Tail(keys)))

\* The template is {"k": path} and a key on the path is absent from the
\* source.
IsUnresolved ==
    /\ DOMAIN arg = {KK}
    /\ IsStr(arg[KK])
    /\ ~Contains(arg[KK][2], HASH)
    /\ KeyAbsent(Obj(source), Split(arg[KK][2], DOT))

\* C22: Unresolved paths keep the template value.  When a template entry's
\* path expression does not resolve in the source (a key on the path is
\* absent), the forward output holds the literal template value of that
\* entry at the target key, and no error is returned.
C22_UnresolvedKeepsTemplate ==
    (pc = "translated" /\ IsUnresolved) =>
        /\ result.st = "ok"
        /\ TranslatedOutput[KK] = arg[KK]

\* The output of the translation under the processing order prio of the
\* template entries.
OutputUnder(prio) ==
    runJsonTranslation(Marshal(Obj(source)), arg, result2[2], prio \o <<KF, KG>>).out

\* C29: Forward application does not change the source.  While
\* runJsonTranslation applies a template, the parsed source tree is never
\* modified, so every template entry is resolved against the original
\* source, the output is the same for every processing order of the template
\* entries, and with keepOriginal the "unmapped" field equals the original
\* source document.
C29_SourceUnchanged ==
    (pc = "translated" /\ result.st = "ok") =>
        /\ Unmarshal(result.mod).val = Obj(source)
        /\ \A prio \in PermSeqs({KK, KA}) : OutputUnder(prio) = result.out
        /\ result2 = Bool(TRUE) => TranslatedOutput[UNMAPPED] = Obj(source)

-----------------------------------------------------------------------------
(* Resolution of a path through a list                                     *)

\* The largest index named in a list selector.
MaxIndex == 2

\* Items of the list: objects {"c": string} and strings.
PathItems == Wrap(KC, {Str(VX), Str(VY)}) \cup {Str(VX), Str(VY)}

\* Source documents {"a": [items]}.
PathSources == {[k \in {KA} |-> Lst(q)] : q \in SeqsUpTo(PathItems, MaxListLen)}

\* List selectors: "#", "#N" and "#N-M", followed or not by the key "c".
Selectors ==
    [sel : {"all"}, n : {0}, m : {0}, child : BOOLEAN]
    \cup [sel : {"one"}, n : 0..MaxIndex, m : {0}, child : BOOLEAN]
    \cup [sel : {"range"}, n : 0..MaxIndex, m : 0..MaxIndex, child : BOOLEAN]

\* The text of a selector: "#", "#N", "#N-M".
SelectorText(q) ==
    CASE q.sel = "all" -> <<HASH>>
      [] q.sel = "one" -> <<HASH>> \o NumTokens(q.n)
      [] q.sel = "range" -> <<HASH>> \o NumTokens(q.n) \o <<"-">> \o NumTokens(q.m)

\* The path a.<selector> or a.<selector>.c
SelectorPath(q) ==
    Path(<<KA, SelectorText(q)>> \o (IF q.child THEN <<KC>> ELSE <<>>))

InitPath ==
    /\ pc = "start"
    /\ source \in PathSources
    /\ arg \in Selectors
    /\ result = Null
    /\ result2 = Null
    /\ cache = <<>> /\ files = <<>> /\ calls = 0

\* recurseFindKey(source, path, 0)
Resolve ==
    /\ pc = "start"
    /\ result' = recurseFindKey(source, SelectorPath(arg))
    /\ pc' = "resolved"
    /\ UNCHANGED <<source, arg, result2>>
    /\ UNCHANGED store

NextPath == Resolve

SpecPath == InitPath /\ [][NextPath]_vars

\* The per-item results a resolution returned: the items of the marked list,
\* none for the empty string.
ResultItems ==
    IF result.val = <<>> THEN <<>>
    ELSE IF HasPrefix(result.val, <<SL>>) THEN Unmarshal(Tail(result.val)).val[2]
    ELSE <<Str(result.val)>>

\* What item i (from 1) of the source list contributes: the value at "c" of
\* an object item, a scalar item itself.
ItemValue(i) ==
    IF IsObj(source[KA][2][i]) THEN source[KA][2][i][2][KC] ELSE source[KA][2][i]

\* Every object item is asked for its key "c".
ChildAsked == arg.child \/ \A i \in 1..Len(source[KA][2]) : ~IsObj(source[KA][2][i])

\* C10: List selector completeness.  Through a list of length n, "#" yields
\* exactly n per-item results in list order, "#N" yields exactly the item at
\* zero-based index N and fails as not found when N is out of range, "#N-M"
\* yields exactly M-N+1 results when both bounds are in range and fails when
\* N > M or out of range.
C10_ListSelector ==
    (pc = "resolved" /\ ChildAsked) =>
        CASE arg.sel = "all" ->
               /\ ~result.err
               /\ ResultItems = [i \in 1..Len(source[KA][2]) |-> ItemValue(i)]
          [] arg.sel = "one" ->
               IF arg.n < Len(source[KA][2])
               THEN ~result.err /\ ResultItems = <<ItemValue(arg.n + 1)>>
               ELSE result.err
          [] arg.sel = "range" ->
               IF arg.n <= arg.m /\ arg.m < Len(source[KA][2])
               THEN ~result.err /\ Len(ResultItems) = arg.m - arg.n + 1
               ELSE result.err

-----------------------------------------------------------------------------
(* The fingerprints of two documents                                       *)

KA1 == <<"a", "1">>
KC1 == <<"c", "1">>

ShapeScalars == {Str(VX), Num(5)}

\* Nested objects: keys "c" and "d", with and without a key that ends with
\* a digit, and two objects that differ only below the third level.
ShapeObjs ==
    Wrap(KC, ShapeScalars)
    \cup {Obj(Pair(KC, Str(VX), KC1, Str(VX))), Obj([k \in {KC1} |-> Str(VX)]),
          Obj([k \in {KD} |-> Str(VX)])}
    \cup Wrap(KC, Wrap(KC, Wrap(KC, Wrap(KC, {Str(VX)}) \cup Wrap(KD, {Str(VX)}))))

ShapeItems ==
    {Str(VX), Obj([k \in {KC} |-> Str(VX)]), Obj(Pair(KC, Str(VY), KC1, Str(VX)))}

ShapeValues == ShapeScalars \cup ShapeObjs \cup {Lst(q) : q \in SeqsUpTo(ShapeItems, MaxListLen)}

\* Documents {"a": value}, {"a": value, "a1": scalar}, {"a": object, "b": scalar}.
ShapeDocs ==
    {[k \in {KA} |-> val] : val \in ShapeValues}
    \cup {Pair(KA, val, KA1, Str(VY)) : val \in ShapeValues}
    \cup {Pair(KA, val, KB, Str(VX)) : val \in ShapeObjs}

\* The standard the two documents are translated to.
ShapeStandard == <<"s", DOT, "j", "s", "o", "n">>

InitShape ==
    /\ pc = "start"
    /\ source \in ShapeDocs
    /\ arg \in ShapeDocs
    /\ result = Null
    /\ result2 = Null
    /\ cache = <<>> /\ files = <<>> /\ calls = 0

\* RemoveJsonValues(startValue, 1) in Translate, for the first document
FingerprintFirst ==
    /\ pc = "start"
    /\ result' = RemoveJsonValues(Marshal(Obj(source)), 1)
    /\ pc' = "first"
    /\ UNCHANGED <<source, arg, result2>>
    /\ UNCHANGED store

\* RemoveJsonValues(startValue, 1) in Translate, for the second document
FingerprintSecond ==
    /\ pc = "first"
    /\ result2' = RemoveJsonValues(Marshal(Obj(arg)), 1)
    /\ pc' = "both"
    /\ UNCHANGED <<source, arg, result>>
    /\ UNCHANGED store

NextShape == FingerprintFirst \/ FingerprintSecond

SpecShape == InitShape /\ [][NextShape]_vars

\* The name of a key ends with a digit.
DigitSuffixed(k) ==
    k # <<>> /\ k[Len(k)] \in {"0", "1", "2", "3", "4", "5", "6", "7", "8", "9"}

RECURSIVE Skeleton(_)
\* A document without its scalar leaf values and without the object keys
\* whose name ends with a digit, at any depth.
Skeleton(x) ==
    CASE IsObj(x) -> Obj([k \in {y \in DOMAIN x[2] : ~DigitSuffixed(y)} |-> Skeleton(x[2][k])])
      [] IsLst(x) -> Lst([i \in 1..Len(x[2]) |-> Skeleton(x[2][i])])
      [] OTHER -> Null

\* The two documents differ only in scalar leaf values and in the presence
\* of keys that end with a digit.
SameShape == Skeleton(Obj(source)) = Skeleton(Obj(arg))

\* C6: Fingerprint stability.  Two source documents that differ only in
\* their scalar leaf values and in the presence or absence of object keys
\* whose name ends in a digit, at any depth, get the same keyToken from
\* RemoveJsonValues and hence the same keyTokenFile in Translate.
C6_FingerprintStability ==
    (pc = "both" /\ SameShape) =>
        /\ ~result.err /\ ~result2.err
        /\ result.keyToken = result2.keyToken
        /\ KeyTokenFile(<<>>, ShapeStandard, result.keyToken)
              = KeyTokenFile(<<>>, ShapeStandard, result2.keyToken)

\* Two different documents of the same shape, one with a key that ends with
\* a digit and the other without it, have been fingerprinted alike.
C6_Witness ==
    /\ pc = "both" /\ SameShape
    /\ source # arg
    /\ KA1 \in DOMAIN source /\ KA1 \notin DOMAIN arg
    /\ IsLst(source[KA]) /\ source[KA] # arg[KA]
    /\ result.keyToken = result2.keyToken /\ result.keyToken # <<>>

RECURSIVE KeyPaths(_)
\* The paths of object keys in a document, through nested objects and the
\* items of lists, without the keys whose name ends with a digit.
KeyPaths(x) ==
    CASE IsObj(x) ->
            UNION {{<<k>>} \cup {<<k>> \o p : p \in KeyPaths(x[2][k])} :
                     k \in {y \in DOMAIN x[2] : ~DigitSuffixed(y)}}
      [] IsLst(x) -> UNION {KeyPaths(x[2][i]) : i \in 1..Len(x[2])}
      [] OTHER -> {}

\* The two documents differ in the names of their object keys.
DifferentShape == KeyPaths(Obj(source)) # KeyPaths(Obj(arg))

\* C30: ShapeToken separates shapes.  Two source documents whose
\* ShapeSkeletons differ in object key structure (different key names after
\* removing digit-suffixed keys, at the top level, in nested objects or in
\* objects inside lists) produce different keyTokens from RemoveJsonValues,
\* so a template learned for one shape is never looked up for a document of
\* a different shape.
C30_ShapeSeparation ==
    (pc = "both" /\ DifferentShape /\ ~result.err /\ ~result2.err) =>
        /\ result.keyToken # result2.keyToken
        /\ KeyTokenFile(<<>>, ShapeStandard, result.keyToken)
              # KeyTokenFile(<<>>, ShapeStandard, result2.keyToken)

-----------------------------------------------------------------------------
(* Translate and GptTranslate run by concurrent callers                    *)

Callers == {"c1", "c2"}

\* The standards on disk: "s" is a standard, "l" refers to the substandard s.
STD == <<"s">>
SUB == <<"l">>
StandardFiles ==
    Pair(StandardFile(STD), Marshal(Obj([k \in {KK} |-> Str(<<>>)])),
         StandardFile(SUB), <<"[">> \o STD \o <<"]">>)

\* Source documents: two of one shape, one of them with a key that ends
\* with a digit, one with a list under the same key, and one with another key.
FlightDocs ==
    {[k \in {KA} |-> Str(VX)], Pair(KA, Str(VY), KA1, Str(VX)),
     [k \in {KA} |-> Lst(<<Str(VX)>>)], [k \in {KB} |-> Str(VX)]}

\* What the external generator may answer: a template, or a template
\* between code fences.
GenOutputs ==
    {Marshal(Obj([k \in {KK} |-> Str(KA)])),
     FENCEJSON \o <<NL>> \o Marshal(Obj([k \in {KK} |-> Str(KB)])) \o <<NL>> \o FENCE}

\* The calls of the two callers: the first translates {"a": "x"} to the
\* standard s, the second any of the documents to any of the standards.
FlightCalls ==
    {[c \in Callers |-> IF c = "c1" THEN [standard |-> STD, doc |-> [k \in {KA} |-> Str(VX)]]
                        ELSE call] :
       call \in [standard : {STD, SUB}, doc : FlightDocs]}

\* How many times the generator may fail in one run.
MaxFailures == 5

\* The local variables of a call of Translate, and what is recorded about it:
\* tries (generator invocations of this call), timedOut (its poll loop ran
\* out), entered (it reached the lock check of GptTranslate), before (the
\* calls that had returned without error when it began), readFault (the
\* saved translation was there and could not be read), applied (the
\* structure it applied).
NoLocals ==
    [startValue |-> <<>>, returnJson |-> <<>>, keyToken |-> <<>>, keyTokenFile |-> <<>>,
     standardFormat |-> <<>>, gptTranslated |-> <<>>, inputStructure |-> <<>>,
     cacheData |-> <<>>, cnt |-> 0, contentOutput |-> <<>>,
     tries |-> 0, timedOut |-> FALSE, entered |-> FALSE, before |-> {},
     readFault |-> FALSE, applied |-> Null]

InitFlight ==
    /\ pc = [c \in Callers |-> "idle"]
    /\ source \in [apiKey : BOOLEAN, call : FlightCalls]
    /\ arg = [c \in Callers |-> NoLocals]
    /\ result = [c \in Callers |-> Null]
    /\ result2 = Null
    /\ cache = <<>>
    /\ files = StandardFiles
    /\ calls = 0

Goto(c, label) == pc' = [pc EXCEPT ![c] = label]

\* Translate returns (out, err); the empty err is nil.
Return(c, out, err) ==
    /\ result' = [result EXCEPT ![c] = [out |-> out, err |-> err]]
    /\ Goto(c, "done")

\* inputValue of the call of c
InputValue(c) == Marshal(Obj(source.call[c].doc))

\* userQuery of the call of c
Query(c) == UserQuery(arg[c].standardFormat, arg[c].returnJson)

\* The calls that have returned without error.
Succeeded == {d \in Callers : pc[d] = "done" /\ result[d].err = ""}

BeginWith(c, startValue, r) ==
    IF r.err THEN Return(c, <<>>, "json") /\ UNCHANGED arg
    ELSE /\ arg' = [arg EXCEPT ![c] =
                      [@ EXCEPT !.startValue = startValue, !.returnJson = r.out,
                                !.keyToken = r.keyToken,
                                !.keyTokenFile = KeyTokenFile(<<>>, source.call[c].standard,
                                                              r.keyToken),
                                !.before = Succeeded]]
         /\ Goto(c, "saveInput")
         /\ UNCHANGED result

\* Translate up to keyTokenFile: the input is trimmed and reduced to its
\* shape.  The inputs here are JSON objects, which YamlConvert never sees.
Begin(c) ==
    /\ pc[c] = "idle"
    /\ Bind(TrimSpace(InputValue(c)), LAMBDA startValue :
         BeginWith(c, startValue, RemoveJsonValues(startValue, 1)))
    /\ UNCHANGED <<source, result2, store>>

\* SaveParsedInput(keyTokenFile, returnJson); when it fails Translate
\* returns the input and no error.
SaveParsedInput(c) ==
    /\ pc[c] = "saveInput"
    /\ \E ok \in BOOLEAN :
         IF ok THEN /\ files' = MapSet(files, InputFile(arg[c].keyTokenFile), arg[c].returnJson)
                    /\ Goto(c, "getExisting")
                    /\ UNCHANGED result
         ELSE UNCHANGED files /\ Return(c, InputValue(c), "")
    /\ UNCHANGED <<source, arg, result2, cache, calls>>

\* GetExistingStructure(keyTokenFile) and FixTranslationStructure: the saved
\* translation, when the file is there and can be read.
GetExistingStructure(c) ==
    /\ pc[c] = "getExisting"
    /\ \E ok \in BOOLEAN :
         IF ok /\ ExistingStructureFile(arg[c].keyTokenFile) \in DOMAIN files
         THEN /\ arg' = [arg EXCEPT ![c].inputStructure =
                           FixTranslationStructure(files[ExistingStructureFile(arg[c].keyTokenFile)])]
              /\ Goto(c, "setStructure")
         ELSE /\ arg' = [arg EXCEPT ![c].readFault =
                           ExistingStructureFile(arg[c].keyTokenFile) \in DOMAIN files]
              /\ Goto(c, "getStandard")
    /\ UNCHANGED <<source, result, result2, store>>

\* The standard has been read: a substandard goes on in handleSubStandard,
\* any other standard in GptTranslate.
GotStandard(c, standardFormat) ==
    /\ arg' = [arg EXCEPT ![c].standardFormat = standardFormat]
    /\ Goto(c, IF IsSubStandard(standardFormat) THEN "substandard" ELSE "gptTranslate")
    /\ UNCHANGED result

\* GetStandard(inputStandard); when it fails Translate returns the input
\* and no error.
GetStandard(c) ==
    /\ pc[c] = "getStandard"
    /\ \E ok \in BOOLEAN :
         IF ok /\ StandardFile(source.call[c].standard) \in DOMAIN files
         THEN GotStandard(c, files[StandardFile(source.call[c].standard)])
         ELSE Return(c, InputValue(c), "") /\ UNCHANGED arg
    /\ UNCHANGED <<source, result2, store>>

\* GptTranslate returned (standardFormat, err): Translate saves the standard
\* as the translation when the error mentions OPENAI, and returns the error.
GptFailed(c, err) ==
    /\ IF MentionsOpenAI(err)
       THEN \E ok \in BOOLEAN :
              files' = IF ok THEN MapSet(files, TranslationFile(arg[c].keyTokenFile),
                                         FixTranslationStructure(arg[c].standardFormat))
                       ELSE files
       ELSE UNCHANGED files
    /\ Return(c, <<>>, err)
    /\ UNCHANGED arg

\* GptTranslate returned (standardFormat, nil)
GptReturnedStandard(c, value) ==
    /\ arg' = [arg EXCEPT ![c].gptTranslated = arg[c].standardFormat]
    /\ Goto(c, "saveTranslation")
    /\ UNCHANGED result

\* GptTranslate returned (value, nil)
GptReturned(c, value) ==
    /\ arg' = [arg EXCEPT ![c].gptTranslated = value]
    /\ Goto(c, "saveTranslation")
    /\ UNCHANGED result

\* GptTranslate up to the lock check: the API key and the size of the input
GptTranslate(c) ==
    /\ pc[c] = "gptTranslate"
    /\ IF ~source.apiKey THEN GptFailed(c, "OPENAI_API_KEY not set")
       ELSE IF Len(arg[c].returnJson) > maxInputSize THEN GptFailed(c, "Input data too long")
       ELSE /\ arg' = [arg EXCEPT ![c].entered = TRUE]
            /\ Goto(c, "checkLock")
            /\ UNCHANGED <<result, files>>
    /\ UNCHANGED <<source, result2, cache, calls>>

\* GetCache(cacheKeyStarted): with the lock there the caller polls, without
\* it the caller goes on to write it.
CheckLock(c) ==
    /\ pc[c] = "checkLock"
    /\ IF CacheKeyStarted(Query(c)) \in DOMAIN cache
       THEN arg' = [arg EXCEPT ![c].cnt = 0] /\ Goto(c, "poll")
       ELSE UNCHANGED arg /\ Goto(c, "setLock")
    /\ UNCHANGED <<source, result, result2, store>>

\* SetCache(cacheKeyStarted, "started", 1)
SetLock(c) ==
    /\ pc[c] = "setLock"
    /\ cache' = MapSet(cache, CacheKeyStarted(Query(c)), <<"started">>)
    /\ Goto(c, "readResult")
    /\ UNCHANGED <<source, arg, result, result2, files, calls>>

\* The poll loop ends after maxIter sleeps.
PollsOutLate(cnt) == cnt > maxIter
PollsOut(cnt) == cnt >= maxIter

\* One round of the poll loop: GetCache(cacheKey), then the count and the sleep
Poll(c) ==
    /\ pc[c] = "poll"
    /\ IF CacheKey(Query(c)) \in DOMAIN cache THEN GptReturned(c, cache[CacheKey(Query(c))])
       ELSE IF PollsOut(arg[c].cnt)
       THEN /\ arg' = [arg EXCEPT ![c].timedOut = TRUE]
            /\ Goto(c, "readResult")
            /\ UNCHANGED result
       ELSE /\ arg' = [arg EXCEPT ![c].cnt = @ + 1]
            /\ UNCHANGED <<pc, result>>
    /\ UNCHANGED <<source, result2, store>>

\* GetCache(cacheKey) after the lock
ReadResult(c) ==
    /\ pc[c] = "readResult"
    /\ IF CacheKey(Query(c)) \in DOMAIN cache THEN GptReturned(c, cache[CacheKey(Query(c))])
       ELSE Goto(c, "saveQuery") /\ UNCHANGED <<arg, result>>
    /\ UNCHANGED <<source, result2, store>>

\* SaveQuery(keyTokenFile, userQuery), whose error is dropped
SaveQuery(c) ==
    /\ pc[c] = "saveQuery"
    /\ \E ok \in BOOLEAN :
         files' = IF ok THEN MapSet(files, QueryFile(arg[c].keyTokenFile), Query(c)) ELSE files
    /\ arg' = [arg EXCEPT ![c].cnt = 0]
    /\ Goto(c, "generate")
    /\ UNCHANGED <<source, result, result2, cache, calls>>

\* How many times the generator has failed.
Failed(c) == arg[c].tries - (IF arg[c].contentOutput = <<>> THEN 0 ELSE 1)
Failures == Failed("c1") + Failed("c2")

\* The retry loop gives up after maxTries failures.
ExhaustedLate(cnt) == cnt > maxTries
Exhausted(cnt) == cnt >= maxTries

\* One round of the retry loop: after maxTries failures the call fails,
\* otherwise the generator is invoked and answers or fails.
Generate(c) ==
    /\ pc[c] = "generate"
    /\ IF Exhausted(arg[c].cnt)
       THEN GptFailed(c, "Failed to match Formatting") /\ UNCHANGED calls
       ELSE /\ calls' = calls + 1
            /\ \/ /\ Failures < MaxFailures
                  /\ arg' = [arg EXCEPT ![c] = [@ EXCEPT !.cnt = @ + 1, !.tries = @ + 1]]
                  /\ UNCHANGED pc
               \/ \E contentOutput \in GenOutputs :
                    /\ arg' = [arg EXCEPT ![c] = [@ EXCEPT !.contentOutput = contentOutput,
                                                          !.tries = @ + 1]]
                    /\ Goto(c, "setResult")
            /\ UNCHANGED <<result, files>>
    /\ UNCHANGED <<source, result2, cache>>

\* SetCache(cacheKey, contentOutput, 30) and the return of GptTranslate
SetResult(c) ==
    /\ pc[c] = "setResult"
    /\ cache' = MapSet(cache, CacheKey(Query(c)), arg[c].contentOutput)
    /\ GptReturned(c, arg[c].contentOutput)
    /\ UNCHANGED <<source, result2, files, calls>>

\* SaveTranslation(keyTokenFile, gptTranslated); when it fails Translate
\* returns the error.
SaveTranslation(c) ==
    /\ pc[c] = "saveTranslation"
    /\ \E ok \in BOOLEAN :
         IF ok THEN /\ files' = MapSet(files, TranslationFile(arg[c].keyTokenFile),
                                       FixTranslationStructure(arg[c].gptTranslated))
                    /\ arg' = [arg EXCEPT ![c].inputStructure = arg[c].gptTranslated]
                    /\ Goto(c, "setStructure")
                    /\ UNCHANGED result
         ELSE Return(c, <<>>, "save translation") /\ UNCHANGED <<files, arg>>
    /\ UNCHANGED <<source, result2, cache, calls>>

\* SetStructureCache(keyToken, inputStructure)
SetStructureCache(c) ==
    /\ pc[c] = "setStructure"
    /\ cache' = MapSet(cache, StructureKey(arg[c].keyToken), arg[c].inputStructure)
    /\ Goto(c, "getStructure")
    /\ UNCHANGED <<source, arg, result, result2, files, calls>>

\* GetStructureFromCache(keyToken) up to the decoding of what the cache holds
GetStructureFromCache(c) ==
    /\ pc[c] = "getStructure"
    /\ IF StructureKey(arg[c].keyToken) \notin DOMAIN cache
       THEN Return(c, <<>>, "no structure") /\ UNCHANGED arg
       ELSE Bind(cache[StructureKey(arg[c].keyToken)], LAMBDA cacheData :
              Bind(Unmarshal(FixTranslationStructure(cacheData)), LAMBDA u :
                IF ~u.ok \/ ~(IsObj(u.val) \/ IsNull(u.val))
                THEN Return(c, <<>>, "unmarshal structure") /\ UNCHANGED arg
                ELSE /\ arg' = [arg EXCEPT ![c].cacheData = cacheData]
                     /\ Goto(c, "apply")
                     /\ UNCHANGED result))
    /\ UNCHANGED <<source, result2, store>>

\* The structure that was decoded from the cache
ReturnStructure(c) ==
    Bind(Unmarshal(FixTranslationStructure(arg[c].cacheData)), LAMBDA u :
      IF IsObj(u.val) THEN u.val[2] ELSE EmptyMap)

\* Translate returns what runJsonTranslation returned; a panic ends the call
\* with the process.
Applied(c, r) ==
    IF r.st = "ok" THEN Return(c, r.out, "") ELSE Return(c, <<>>, r.st)

\* The end of GetStructureFromCache, which sets the structure in the cache
\* again, and runJsonTranslation(startValue, returnStructure, keepOriginal)
ApplyStructure(c) ==
    /\ pc[c] = "apply"
    /\ cache' = MapSet(cache, StructureKey(arg[c].keyToken), arg[c].cacheData)
    /\ arg' = [arg EXCEPT ![c].applied = arg[c].cacheData]
    /\ \E prio \in PermSeqs({KK}) :
         Applied(c, runJsonTranslation(arg[c].startValue, ReturnStructure(c), FALSE, prio))
    /\ UNCHANGED <<source, result2, files, calls>>

NextFlight ==
    \E c \in Callers :
       \/ Begin(c) \/ SaveParsedInput(c) \/ GetExistingStructure(c) \/ GetStandard(c)
       \/ GptTranslate(c) \/ CheckLock(c) \/ SetLock(c) \/ Poll(c) \/ ReadResult(c)
       \/ SaveQuery(c) \/ Generate(c) \/ SetResult(c) \/ SaveTranslation(c)
       \/ SetStructureCache(c) \/ GetStructureFromCache(c) \/ ApplyStructure(c)

SpecFlight == InitFlight /\ [][NextFlight]_vars

\* The callers that ran the lock protocol of GptTranslate for the same
\* query as c.
SameQuery(c) == {d \in Callers : arg[d].entered /\ Query(d) = Query(c)}

\* C1: Single-flight.  When K >= 2 callers run GptTranslate concurrently for
\* the same query with no cached result, and no caller's poll loop times
\* out, the external generator is invoked strictly fewer than K times, under
\* every interleaving of the lock check, lock write, result read and result
\* write.  Stated for the runs in which the generator never fails, so that
\* no invocation is a retry.
C1_SingleFlight ==
    (/\ \A c \in Callers : pc[c] = "done" /\ SameQuery(c) = Callers /\ ~arg[c].timedOut
     /\ Failures = 0)
        => calls < Cardinality(Callers)

\* The call of c returned without error before the call of d began, for the
\* same standard and a source with the same keyToken.
LaterSame(c, d) ==
    /\ c \in arg[d].before
    /\ TrimJson(source.call[c].standard) = TrimJson(source.call[d].standard)
    /\ arg[c].keyToken = arg[d].keyToken

\* The structure the call of c applied is the saved translation.
UsedPersisted(c) ==
    /\ arg[c].applied # Null
    /\ ExistingStructureFile(arg[c].keyTokenFile) \in DOMAIN files
    /\ files[ExistingStructureFile(arg[c].keyTokenFile)] = FixTranslationStructure(arg[c].applied)

C14_BestEffortPersistence ==
    \A c \in Callers :
       (pc[c] = "done" /\ arg[c].contentOutput # <<>>) => result[c].err # "save translation"

\* The step of c out of the retry loop with an error
GaveUp(c) == pc[c] = "generate" /\ pc'[c] = "done"

\* The step of c that writes under the result cache key
WroteResult(c) == pc[c] = "setResult" /\ pc'[c] # "setResult"

\* C15: Bounded generator retries.  One GptTranslate call invokes the
\* external generator at most 5 times; it stops at the first successful
\* response and writes that response under the result cache key; if all 5
\* attempts fail it returns an error and writes nothing under the result
\* cache key.
C15_BoundedRetries ==
    [][\A c \in Callers :
         /\ arg'[c].tries <= 5
         /\ arg'[c].contentOutput # <<>> =>
               (pc'[c] # "generate" /\ arg'[c].tries = arg'[c].cnt + 1)
         /\ WroteResult(c) =>
               (/\ CacheKey(Query(c)) \in DOMAIN cache'
                /\ cache'[CacheKey(Query(c))] = arg[c].contentOutput
                /\ arg[c].contentOutput \in GenOutputs)
         /\ GaveUp(c) =>
               (/\ arg[c].tries = 5 /\ arg[c].contentOutput = <<>>
                /\ result'[c].err # "" /\ result'[c].out = <<>>
                /\ cache' = cache)
         /\ cache' # cache /\ CacheKey(Query(c)) \in DOMAIN cache' /\ pc'[c] # pc[c] =>
               (\/ WroteResult(c)
                \/ (CacheKey(Query(c)) \in DOMAIN cache
                    /\ cache'[CacheKey(Query(c))] = cache[CacheKey(Query(c))]))]_vars

\* One call has failed after 5 invocations of the generator and has left no
\* result in the cache, and the other call has returned after a generation
\* that succeeded at its first invocation, with its response in the cache.
C15_Witness ==
    \E c, d \in Callers :
       /\ pc[c] = "done" /\ arg[c].tries = 5 /\ arg[c].contentOutput = <<>>
       /\ result[c].err = "Failed to match Formatting"
       /\ pc[d] = "done" /\ arg[d].tries = 1 /\ arg[d].contentOutput # <<>>
       /\ cache[CacheKey(Query(d))] = arg[d].contentOutput
       /\ CacheKey(Query(c)) \notin DOMAIN cache

\* The step of c out of the poll loop with a result
HandedOff(c) == pc[c] = "poll" /\ pc'[c] = "saveTranslation"

\* d has generated for the query of c and has written its response under
\* the result cache key.
Wrote(d, c) ==
    /\ arg[d].entered /\ Query(d) = Query(c)
    /\ arg[d].contentOutput # <<>>
    /\ pc[d] \notin {"generate", "setResult"}

\* C17: Locked -> Done hand-off.  If a caller of GptTranslate finds the lock
\* present and the generating caller writes its result under the result
\* cache key before the poller's attempts are exhausted, the poller returns
\* exactly the value the generating caller wrote and never invokes the
\* external generator.
C17_HandOff ==
    [][\A c \in Callers :
         /\ HandedOff(c) =>
               (/\ arg[c].tries = 0 /\ arg'[c].tries = 0
                /\ \E d \in Callers \ {c} :
                      Wrote(d, c) /\ arg'[c].gptTranslated = arg[d].contentOutput)
         /\ (arg[c].entered /\ ~arg[c].timedOut /\ arg[c].gptTranslated # <<>>
               /\ arg[c].contentOutput = <<>>) =>
               (arg'[c].tries = 0 /\ pc'[c] \notin {"saveQuery", "generate", "setResult"})]_vars

\* A caller has found the lock, has slept in the poll loop, has been handed
\* the response of the generating caller, and has returned a translation
\* without invoking the generator.
C17_Witness ==
    \E c \in Callers : \E d \in Callers \ {c} :
       /\ pc[c] = "done" /\ result[c].err = ""
       /\ arg[c].entered /\ ~arg[c].timedOut /\ arg[c].cnt > 0 /\ arg[c].tries = 0
       /\ arg[d].tries > 1
       /\ arg[c].gptTranslated = arg[d].contentOutput /\ arg[c].gptTranslated # <<>>

\* What the generator has answered to the calls, as SaveTranslation writes it.
Generated ==
    {FixTranslationStructure(arg[d].contentOutput) :
       d \in {e \in Callers : arg[e].contentOutput # <<>>}}

\* C28: Only generated templates are persisted.  SaveTranslation stores a
\* template under a keyTokenFile only when the generator returned that
\* template successfully; consequently, after a Translate call that failed
\* with a generation error (e.g. missing API key), a later Translate call for
\* the same standard and shape does not find a persisted template and does
\* not return a successful translation built from content no generator
\* produced.
C28_OnlyGeneratedPersisted ==
    \A c \in Callers :
       /\ (arg[c].keyTokenFile # <<>> /\ TranslationFile(arg[c].keyTokenFile) \in DOMAIN files)
             => files[TranslationFile(arg[c].keyTokenFile)] \in Generated
       /\ (pc[c] = "done" /\ result[c].err = "" /\ arg[c].applied # Null)
             => FixTranslationStructure(arg[c].applied) \in Generated

-----------------------------------------------------------------------------
(* Two calls of Translate under one context that may be cancelled          *)

\* Both callers translate {"a": "x"} to the standard s with an API key, as
\* two workers of one fan-out do.
InitCancel ==
    /\ InitFlight
    /\ source.apiKey
    /\ source.call["c2"] = source.call["c1"]

\* The callers whose generation is pending: in the poll loop or in the retry
\* loop of GptTranslate.
Pending == {c \in Callers : pc[c] \in {"poll", "generate"}}

\* The context passed to Translate is cancelled while a generation is
\* pending; result2 records it with the callers whose generation was
\* pending.  No statement of Translate, handleSubStandard or GptTranslate
\* reads the context: GptTranslate makes its own with context.Background().
Cancel ==
    /\ result2 = Null
    /\ Pending # {}
    /\ result2' = <<"cancelled", Pending>>
    /\ UNCHANGED <<pc, source, arg, result, store>>

NextCancel == NextFlight \/ Cancel

SpecCancel == InitCancel /\ [][NextCancel]_vars

\* C13: Cancellation.  If the context passed to Translate is cancelled while
\* an external generation call is pending (its retry and poll loops
\* included), the pending generation is aborted and the call returns a
\* Cancelled error rather than an output.
C13_Cancellation ==
    \A c \in Callers :
       (result2[1] = "cancelled" /\ c \in result2[2] /\ pc[c] = "done")
           => (result[c].err = "Cancelled" /\ arg[c].applied = Null)

-----------------------------------------------------------------------------
(* GptTranslate run by two callers, with crashes and the expiry of locks   *)

\* Both callers have come to GptTranslate with the document {"a": "x"} and
\* the standard s: the locals of Translate at its call of GptTranslate.
LockCall == [standard |-> STD, doc |-> [k \in {KA} |-> Str(VX)]]

LockLocalsOf(startValue, r) ==
    [NoLocals EXCEPT !.startValue = startValue, !.returnJson = r.out,
                     !.keyToken = r.keyToken,
                     !.keyTokenFile = KeyTokenFile(<<>>, STD, r.keyToken),
                     !.standardFormat = StandardFiles[StandardFile(STD)]]

LockLocals ==
    Bind(TrimSpace(Marshal(Obj(LockCall.doc))), LAMBDA startValue :
      LockLocalsOf(startValue, RemoveJsonValues(startValue, 1)))

InitLock ==
    /\ pc = [c \in Callers |-> "gptTranslate"]
    /\ source = [apiKey |-> TRUE, call |-> [c \in Callers |-> LockCall]]
    /\ arg = [c \in Callers |-> LockLocals]
    /\ result = [c \in Callers |-> [out |-> <<>>, err |-> "running"]]
    /\ result2 = Null
    /\ cache = <<>>
    /\ files = MapSet(StandardFiles, InputFile(LockLocals.keyTokenFile), LockLocals.returnJson)
    /\ calls = 0

\* The steps of GptTranslate
GptRun(c) ==
    \/ GptTranslate(c) \/ CheckLock(c) \/ SetLock(c) \/ Poll(c) \/ ReadResult(c)
    \/ SaveQuery(c) \/ Generate(c) \/ SetResult(c)

\* The process of a caller dies after the lock check and before its result
\* is written.
Crash(c) ==
    /\ pc[c] \in {"setLock", "readResult", "saveQuery", "generate", "setResult"}
    /\ Goto(c, "crashed")
    /\ UNCHANGED <<source, arg, result, result2, store>>

IsLock(k) == HasSuffix(k, <<"-started">>)

\* A lock is set with an expiration of one minute: requestCache.Set(name,
\* data, time.Minute*time.Duration(expiration)), after which the cache no
\* longer has it.
Expire ==
    /\ \E k \in DOMAIN cache :
         /\ IsLock(k)
         /\ cache' = [x \in (DOMAIN cache) \ {k} |-> cache[x]]
    /\ UNCHANGED <<pc, source, arg, result, result2, files, calls>>

NextLock == (\E c \in Callers : GptRun(c) \/ Crash(c)) \/ Expire

\* A caller that has not crashed goes on running, the generator answers or
\* fails, and time passes.
SpecLock ==
    /\ InitLock /\ [][NextLock]_vars
    /\ \A c \in Callers : WF_vars(GptRun(c))
    /\ WF_vars(Expire)

\* The caller is inside GptTranslate.
InGpt(c) ==
    pc[c] \in {"gptTranslate", "checkLock", "setLock", "poll", "readResult", "saveQuery",
               "generate", "setResult"}

LockHeld == \E k \in DOMAIN cache : IsLock(k)

\* C16: No permanent wait on a lock.  A caller of GptTranslate that finds
\* the lock present and never observes a result stops polling after at most
\* maxIter = 6 sleeps and then goes on to generate itself, so every
\* GptTranslate call eventually returns even if the lock holder crashed or
\* its generation failed; and a lock that was written is eventually absent
\* again without any explicit delete.
C16_NoPermanentWait ==
    /\ [](\A c \in Callers : arg[c].cnt <= 6 \/ pc[c] # "poll")
    /\ [][\A c \in Callers :
            (pc[c] = "poll" /\ pc'[c] # "poll" /\ CacheKey(Query(c)) \notin DOMAIN cache)
                => (arg[c].cnt = 6 /\ pc'[c] = "readResult")]_vars
    /\ [][\A c \in Callers :
            (pc[c] = "readResult" /\ pc'[c] \notin {"readResult", "crashed"}
               /\ CacheKey(Query(c)) \notin DOMAIN cache)
                => pc'[c] = "saveQuery"]_vars
    /\ \A c \in Callers : InGpt(c) ~> ~InGpt(c)
    /\ LockHeld ~> ~LockHeld

\* The holder of the lock has crashed, the other caller has polled until
\* its attempts ran out, has generated itself and returned, and the lock has
\* expired.
C16_Witness ==
    \E c, d \in Callers :
       /\ pc[d] = "crashed" /\ ~arg[d].timedOut
       /\ pc[c] = "saveTranslation" /\ arg[c].timedOut /\ arg[c].tries > 0
       /\ ~LockHeld

-----------------------------------------------------------------------------
(* A value placed at a location of a tree                                  *)

\* Items of the list: objects with the key "c" and a string.
PlaceItems == Wrap(KC, {Str(VX)}) \cup {Obj(Pair(KC, Str(VY), KD, Str(VX))), Str(VX)}

\* Trees {"a": [items], "b": leaf or object}.
PlaceTrees ==
    {Pair(KA, Lst(q), KB, b) :
       q \in SeqsUpTo(PlaceItems, MaxListLen), b \in {Str(VX)} \cup Wrap(KC, {Str(VX)})}

\* Locations: a.<selector> and a.<selector>.c for the selectors "#", "#N",
\* "#N-M" and "#min-max", and the plain locations b and b.c.
Places ==
    Selectors \cup [sel : {"open", "key"}, n : {0}, m : {0}, child : BOOLEAN]

PlacePath(q) ==
    CASE q.sel = "key" -> Path(<<KB>> \o (IF q.child THEN <<KC>> ELSE <<>>))
      [] q.sel = "open" ->
           Path(<<KA, <<HASH, "min", "-", "max">>>> \o (IF q.child THEN <<KC>> ELSE <<>>))
      [] OTHER -> SelectorPath(q)

\* The value that is placed.
PlacedValue == <<"v">>

InitPlace ==
    /\ pc = "start"
    /\ source \in PlaceTrees
    /\ arg \in Places
    /\ result = Null
    /\ result2 = Null
    /\ cache = <<>> /\ files = <<>> /\ calls = 0

\* MapValueToLocation(source, location, value)
Place ==
    /\ pc = "start"
    /\ result' = MapValueToLocation(source, PlacePath(arg), PlacedValue)
    /\ pc' = "placed"
    /\ UNCHANGED <<source, arg, result2>>
    /\ UNCHANGED store

NextPlace == Place

SpecPlace == InitPlace /\ [][NextPlace]_vars

\* The indexes (from 0) that the selector of the location names in a list
\* of the given length.
SelectedIndexes(q, length) ==
    CASE q.sel = "one" -> {q.n}
      [] q.sel = "range" -> (q.n)..(q.m)
      [] OTHER -> 0..(length - 1)

\* Item i of the list after the call is item i before it with the value
\* under "c" (an item without the key "c" or that is no object is not looked at).
ItemWritten(i) ==
    (IsObj(source[KA][2][i]) /\ KC \in DOMAIN source[KA][2][i][2]) =>
        result.map[KA][2][i] = Obj(MapSet(source[KA][2][i][2], KC, Str(PlacedValue)))

\* C11: PlaceValue selector semantics.  MapValueToLocation(tree, path, value)
\* with a list selector segment after a list-valued key writes the value only
\* into the selected items: every item for '#', only item N for '#N', only
\* items N..M for '#N-M' (open bounds min -> 0, max -> length-1); every
\* non-selected list item and every key not on the path is left unchanged.
C11_PlaceSelector ==
    (pc = "placed" /\ arg.sel # "key" /\ arg.child) =>
        /\ ~result.panic
        /\ DOMAIN result.map = DOMAIN source
        /\ result.map[KB] = source[KB]
        /\ IsLst(result.map[KA])
        /\ Len(result.map[KA][2]) = Len(source[KA][2])
        /\ \A i \in 1..Len(source[KA][2]) :
              IF (i - 1) \in SelectedIndexes(arg, Len(source[KA][2])) THEN ItemWritten(i)
              ELSE result.map[KA][2][i] = source[KA][2][i]

-----------------------------------------------------------------------------
(* Values set and read back under one key of the cache in memcached        *)

\* The longest value, and how many times a value is set.
MaxDataLen == 5
MaxSets == 2

\* Values of bytes "x" and "y".
CacheData == SeqsUpTo({"x", "y"}, MaxDataLen)

\* The key, with a space in it.
CacheTestKey == <<"k", SP, "k">>

\* source counts the calls of SetCache, arg is the data of the last one.
InitCache ==
    /\ pc = "start"
    /\ source = 0
    /\ arg = <<>>
    /\ result = Null
    /\ result2 = Null
    /\ cache = <<>> /\ files = <<>> /\ calls = 0

\* SetCache(ctx, key, data, expiration)
CacheSet ==
    /\ pc \in {"start", "set"}
    /\ source < MaxSets
    /\ \E data \in CacheData :
         /\ cache' = SetCache(cache, CacheTestKey, data).mc
         /\ arg' = data
    /\ source' = source + 1
    /\ pc' = "set"
    /\ UNCHANGED <<result, result2, files, calls>>

\* GetCache(ctx, key)
CacheGet ==
    /\ pc = "set"
    /\ result' = GetCache(cache, CacheTestKey)
    /\ pc' = "got"
    /\ UNCHANGED <<source, arg, result2, store>>

NextCache == CacheSet \/ CacheGet

SpecCache == InitCache /\ [][NextCache]_vars

\* C12: Chunked cache round-trip.  For any key and any value within the size
\* limit (larger than, equal to or a multiple of maxCacheSize), after any
\* sequence of earlier SetCache calls on that key, a completed
\* SetCache(key, data) followed by GetCache(key) returns exactly data,
\* reassembled from key, key_1, key_2, ... with no stale bytes from an
\* earlier, larger value.
C12_ChunkedRoundTrip ==
    pc = "got" => (~result.err /\ result.data = arg)

-----------------------------------------------------------------------------
(* handleSubStandard: the items of a list translated by concurrent workers *)

\* The longest list.
MaxFan == 4

\* The items of the list.
FanItems ==
    {Obj([k \in {KA} |-> Str(VX)]), Obj([k \in {KA} |-> Str(VY)]),
     Obj([k \in {KA} |-> Lst(<<Obj([j \in {KC} |-> Str(VX)])>>)])}

\* The template Translate has for the substandard, saved or generated.
FanTemplates ==
    {[k \in {KK} |-> Str(KA)],
     [k \in {KK} |-> Lst(<<Num(5), Obj([j \in {KF} |-> Str(Path(<<KA, <<HASH>>, KC>>))])>>)]}

\* returnJson is the list, or an object that holds it.
FanInputs ==
    {Marshal(Lst(items)) : items \in SeqsUpTo(FanItems, MaxFan)}
    \cup {Marshal(Obj(Pair(KA, Lst(items), KB, Str(VX)))) : items \in SeqsUpTo(FanItems, MaxFan)}

\* pc.main is the position of handleSubStandard and pc.w[i] that of the
\* worker of the i-th item; arg holds listJson, the loop index cnt, the
\* counter of the WaitGroup, the holder of the mutex (0 when free) and the
\* schemalessOutput of each item (Null before its Translate has succeeded);
\* result is parsedOutput, each output with the index of its item; result2 is
\* what handleSubStandard returns.
InitFan ==
    /\ pc = [main |-> "start", w |-> <<>>]
    /\ source \in [returnJson : FanInputs, template : FanTemplates]
    /\ arg = [listJson |-> <<>>, cnt |-> 0, wg |-> 0, mu |-> 0, outputs |-> <<>>]
    /\ result = <<>>
    /\ result2 = Null
    /\ cache = <<>> /\ files = <<>> /\ calls = 0

\* handleSubStandard up to the loop over listJson
FindList ==
    /\ pc.main = "start"
    /\ \E prio \in PermSeqs({KA, KB}) :
         Bind(ListJson(source.returnJson, prio), LAMBDA l :
           IF l.err THEN /\ result2' = [out |-> <<>>, err |-> "unmarshal"]
                         /\ pc' = [pc EXCEPT !.main = "returned"]
                         /\ UNCHANGED arg
           ELSE IF Len(l.list) = 0
           THEN /\ result2' = [out |-> <<"[", "]">>, err |-> ""]
                /\ pc' = [pc EXCEPT !.main = "returned"]
                /\ UNCHANGED arg
           ELSE /\ arg' = [arg EXCEPT !.listJson = l.list,
                                      !.outputs = [i \in 1..Len(l.list) |-> Null]]
                /\ pc' = [main |-> "loop", w |-> [i \in 1..Len(l.list) |-> "idle"]]
                /\ UNCHANGED result2)
    /\ UNCHANGED <<source, result, store>>

\* Translate(ctx, subStandard, marshalledBody, authConfig, "skip_substandard")
\* of one item: an error of its I/O or of the generator, or the template
\* applied to the item.
TranslateItem(item, ok, prio) ==
    IF ~ok THEN [out |-> <<>>, mod |-> <<>>, st |-> "error"]
    ELSE runJsonTranslation(Marshal(item), source.template, FALSE, prio \o <<KF, KG>>)

\* The loop goes on with the next item, or ends after the last one.
LoopNext == IF arg.cnt + 1 < Len(arg.listJson) THEN "loop" ELSE "wait"

\* A panic that nothing recovers ends the process.
FanPanic ==
    /\ pc' = [pc EXCEPT !.main = "panicked"]
    /\ UNCHANGED <<arg, result>>

\* if cnt == 0: no goroutine for the first item
NeverFirst(cnt) == cnt < 0
IsFirst(cnt) == cnt = 0

\* The first item is translated by handleSubStandard itself.
TranslatedFirst(r) ==
    IF r.st = "panic" THEN FanPanic
    ELSE /\ pc' = [main |-> LoopNext, w |-> [pc.w EXCEPT ![1] = "done"]]
         /\ IF r.st = "ok"
            THEN /\ result' = Append(result, [cnt |-> 0, out |-> r.out])
                 /\ arg' = [arg EXCEPT !.cnt = 1, !.outputs[1] = r.out]
            ELSE /\ arg' = [arg EXCEPT !.cnt = 1]
                 /\ UNCHANGED result

TranslateFirst ==
    /\ pc.main = "loop" /\ IsFirst(arg.cnt)
    /\ \E ok \in BOOLEAN, prio \in PermSeqs({KK}) :
         TranslatedFirst(TranslateItem(arg.listJson[1], ok, prio))
    /\ UNCHANGED <<source, result2, store>>

\* wg.Add(1) and the go statement for item cnt, then the test of cnt
\* against skipAfterCount.
StartWorker ==
    /\ pc.main = "loop" /\ ~IsFirst(arg.cnt)
    /\ pc' = [main |-> IF arg.cnt > skipAfterCount THEN "wait" ELSE LoopNext,
              w |-> [pc.w EXCEPT ![arg.cnt + 1] = "translate"]]
    /\ arg' = [arg EXCEPT !.cnt = @ + 1, !.wg = @ + 1]
    /\ UNCHANGED <<source, result, result2, store>>

\* The worker of item i has translated it; on an error it returns, and the
\* deferred wg.Done() runs.
WorkerTranslated(i, r) ==
    IF r.st = "panic" THEN FanPanic
    ELSE IF r.st = "ok"
    THEN /\ arg' = [arg EXCEPT !.outputs[i] = r.out]
         /\ pc' = [pc EXCEPT !.w[i] = "lock"]
         /\ UNCHANGED result
    ELSE /\ arg' = [arg EXCEPT !.wg = @ - 1]
         /\ pc' = [pc EXCEPT !.w[i] = "done"]
         /\ UNCHANGED result

WorkerTranslate(i) ==
    /\ pc.main \in {"loop", "wait"} /\ i \in DOMAIN pc.w /\ pc.w[i] = "translate"
    /\ \E ok \in BOOLEAN, prio \in PermSeqs({KK}) :
         WorkerTranslated(i, TranslateItem(arg.listJson[i], ok, prio))
    /\ UNCHANGED <<source, result2, store>>

\* mu.Lock()
WorkerLock(i) ==
    /\ pc.main \in {"loop", "wait"} /\ i \in DOMAIN pc.w /\ pc.w[i] = "lock"
    /\ arg.mu = 0
    /\ arg' = [arg EXCEPT !.mu = i]
    /\ pc' = [pc EXCEPT !.w[i] = "append"]
    /\ UNCHANGED <<source, result, result2, store>>

\* parsedOutput = append(parsedOutput, schemalessOutput), then the deferred
\* mu.Unlock() and wg.Done()
WorkerAppend(i) ==
    /\ pc.main \in {"loop", "wait"} /\ i \in DOMAIN pc.w /\ pc.w[i] = "append"
    /\ result' = Append(result, [cnt |-> i - 1, out |-> arg.outputs[i]])
    /\ arg' = [arg EXCEPT !.mu = 0, !.wg = @ - 1]
    /\ pc' = [pc EXCEPT !.w[i] = "done"]
    /\ UNCHANGED <<source, result2, store>>

\* wg.Wait() and the return of the outputs as one list
WaitAll ==
    /\ pc.main = "wait"
    /\ arg.wg = 0
    /\ result2' = [out |-> FinalOutput(result), err |-> ""]
    /\ pc' = [pc EXCEPT !.main = "returned"]
    /\ UNCHANGED <<source, arg, result, store>>

NextFan ==
    \/ FindList \/ TranslateFirst \/ StartWorker \/ WaitAll
    \/ \E i \in 1..MaxFan : WorkerTranslate(i) \/ WorkerLock(i) \/ WorkerAppend(i)

SpecFan == InitFan /\ [][NextFan]_vars

\* C18: Fan-out order.  The output list of handleSubStandard preserves
\* source order: for any two list elements with source indices i < j whose
\* translations both succeed, the output of element i appears before the
\* output of element j, under every interleaving of the worker goroutines.
C18_FanOutOrder ==
    pc.main = "returned" =>
        \A p, q \in 1..Len(result) : p < q => result[p].cnt < result[q].cnt

\* The items that handleSubStandard has begun to translate.
Processed == {i \in DOMAIN pc.w : pc.w[i] # "idle"}

\* C19: Fan-out completion.  handleSubStandard returns only after every
\* worker it started has finished; a failing element translation never makes
\* the batch fail; and the returned list contains exactly one entry for each
\* processed element whose translation succeeded and none for failed ones,
\* with no entry lost or duplicated under any interleaving of the appends.
C19_FanOutCompletion ==
    /\ pc.main # "panicked"
    /\ (pc.main = "returned" /\ arg.listJson # <<>>) =>
          /\ result2.err = ""
          /\ result2.out = FinalOutput(result)
          /\ \A i \in DOMAIN pc.w : pc.w[i] \in {"idle", "done"}
          /\ \A i \in DOMAIN pc.w :
                Cardinality({p \in 1..Len(result) : result[p].cnt = i - 1})
                    = IF i \in Processed /\ arg.outputs[i] # Null THEN 1 ELSE 0

\* C24: First element primes the cache.  In handleSubStandard the
\* translation of list element 0 runs synchronously and has completed
\* (succeeded or failed) before any worker for an element with index >= 1 is
\* started, for every list of length >= 2.
C24_FirstElementFirst ==
    /\ \A i \in DOMAIN pc.w : (i > 1 /\ pc.w[i] # "idle") => pc.w[1] = "done"
    /\ (pc.main = "loop" /\ arg.cnt = 0) => (result = <<>> /\ arg.wg = 0)
    /\ \A p \in 1..Len(result) : result[p].cnt = 0 => p = 1

\* The first of three items has been translated, its output is the first of
\* the collector, and the workers of the two others are both running.
C24_Witness ==
    /\ Len(arg.listJson) >= 3
    /\ pc.w[1] = "done" /\ arg.outputs[1] # Null
    /\ Len(result) = 1 /\ result[1].cnt = 0
    /\ pc.w[2] = "translate" /\ pc.w[3] = "translate"

\* The element translations that are in flight
InFlight == {i \in DOMAIN pc.w : pc.w[i] \in {"translate", "lock", "append"}}

\* C25: Fan-out cap.  For a source list of any length, the number of element
\* translations of handleSubStandard that are in flight at the same time
\* never exceeds the fixed maximum skipAfterCount.
C25_FanOutCap ==
    Cardinality(InFlight) <= skipAfterCount

-----------------------------------------------------------------------------
(* Forward application of a template string with "$" references            *)

\* The most parts of a template string.
MaxParts == 3

KCD == <<"c", "d">>

\* Sources with string leaves: {"a": {"c": v, "cd": w}, "b": w}.
TextSources ==
    {Pair(KA, Obj(Pair(KC, Str(val), KCD, Str(w))), KB, Str(w)) :
       val \in {VX}, w \in {VX, VY}}

\* The parts of a template string: text, a space, a dot, and references to
\* a top-level key, to nested keys of which one is a prefix of the other,
\* and to a key that is not there.
TextParts ==
    {<<"t">>, <<SP>>, <<DOT>>, <<DOLLAR>> \o KB, <<DOLLAR>> \o Path(<<KA, KC>>),
     <<DOLLAR>> \o Path(<<KA, KCD>>), <<DOLLAR>> \o Path(<<KA, <<"z">>>>)}

RECURSIVE Concat(_)
Concat(parts) == IF parts = <<>> THEN <<>> ELSE Head(parts) \o Concat(Tail(parts))

\* Template strings with at least one reference.
TextTemplates ==
    {Concat(parts) : parts \in {q \in SeqsUpTo(TextParts, MaxParts) :
                                  \E n \in 1..Len(q) : Head(q[n]) = DOLLAR}}

InitText ==
    /\ pc = "start"
    /\ source \in TextSources
    /\ arg \in TextTemplates
    /\ result = Null
    /\ result2 = Null
    /\ cache = <<>> /\ files = <<>> /\ calls = 0

\* runJsonTranslation(source, {"k": text}); result2 is the value of "k" in
\* its output.
TranslateText ==
    /\ pc = "start"
    /\ result' = runJsonTranslation(Marshal(Obj(source)), [k \in {KK} |-> Str(arg)], FALSE,
                                    <<KK, KF, KG>>)
    /\ result2' = IF result'.st = "ok" THEN Unmarshal(result'.out).val[2][KK] ELSE Null
    /\ pc' = "translated"
    /\ UNCHANGED <<source, arg, store>>

NextText == TranslateText

SpecText == InitText /\ [][NextText]_vars

RECURSIVE SegmentsLen(_)
\* The length of the longest prefix of s of the form segment(.segment)*.
SegmentsLen(s) ==
    Bind(RunOfRefChars(s, FALSE), LAMBDA n :
      IF n = 0 THEN 0
      ELSE IF Len(s) > n + 1 /\ s[n + 1] = DOT /\ IsRefChar(s[n + 2])
      THEN n + 1 + SegmentsLen(SubSeq(s, n + 2, Len(s)))
      ELSE n)

\* The stringified value a path of keys resolves to, empty when it does not
\* resolve.
Resolved(path) ==
    Bind(ValueAt(Obj(source), Split(path, DOT)), LAMBDA x :
      IF IsStr(x) THEN x[2] ELSE <<>>)

RECURSIVE Interpolated(_)
\* The text with each reference replaced by what it resolves to.
Interpolated(s) ==
    IF s = <<>> THEN <<>>
    ELSE Bind(IF Head(s) = DOLLAR THEN SegmentsLen(Tail(s)) ELSE 0, LAMBDA n :
           IF n = 0 THEN <<Head(s)>> \o Interpolated(Tail(s))
           ELSE Resolved(SubSeq(s, 2, n + 1)) \o Interpolated(SubSeq(s, n + 2, Len(s))))

\* C20: String interpolation.  For a template string containing one or more
\* $path references (a single-segment reference and references of which one
\* is a textual prefix of another included), forward application replaces
\* each reference by the stringified value it resolves to in the source,
\* replaces an unresolved reference by the empty string, and leaves the
\* surrounding text unchanged.
C20_Interpolation ==
    pc = "translated" => (result.st = "ok" /\ result2 = Str(Interpolated(arg)))

-----------------------------------------------------------------------------
(* Forward application of a template list to source items that lack fields *)

\* Items of the source list with "c", with "d" or with both.
PadItems ==
    {Obj(Pair(KC, Str(v), KD, Str(w))) : v, w \in {VX, VY}}
    \cup {Obj([k \in {f} |-> Str(v)]) : f \in {KC, KD}, v \in {VX, VY}}

PadSources == {Pair(KA, Lst(q), KB, Str(VX)) : q \in SeqsUpTo(PadItems, MaxListLen)}

\* The template {"k": [{"f": "a.#.c", "g": "a.#.d"}]}.
PadTemplate ==
    [k \in {KK} |-> Lst(<<Obj(Pair(KF, Str(Path(<<KA, <<HASH>>, KC>>)),
                                   KG, Str(Path(<<KA, <<HASH>>, KD>>))))>>)]

InitPad ==
    /\ pc = "start"
    /\ source \in PadSources
    /\ arg = PadTemplate
    /\ result = Null
    /\ result2 = Null
    /\ cache = <<>> /\ files = <<>> /\ calls = 0

\* runJsonTranslation(source, template) under one iteration order of the
\* fields of the template object; result2 records the order.
TranslatePadded ==
    /\ pc = "start"
    /\ \E prio \in {<<KK, KF, KG>>, <<KK, KG, KF>>} :
          /\ result' = runJsonTranslation(Marshal(Obj(source)), arg, FALSE, prio)
          /\ result2' = Lst(prio)
    /\ pc' = "translated"
    /\ UNCHANGED <<source, arg, store>>

NextPad == TranslatePadded

SpecPad == InitPad /\ [][NextPad]_vars

\* The per-field list of the field x: its values in the items that have it.
FieldList(x) ==
    Bind(SelectSeq(source[KA][2], LAMBDA item : x \in DOMAIN item[2]), LAMBDA having :
      [i \in 1..Len(having) |-> having[i][2][x]])

\* The longer of two lengths.
Longest(m, n) == IF m > n THEN m ELSE n

\* The i-th value of a per-field list, that of the first item when the list
\* is shorter, the empty string when it is empty.
Padded(list, i) ==
    IF i <= Len(list) THEN list[i] ELSE IF Len(list) > 0 THEN list[1] ELSE Str(<<>>)

\* The merged list the claim expects.
PaddedList ==
    Lst([i \in 1..Longest(Len(FieldList(KC)), Len(FieldList(KD))) |->
           Obj(Pair(KF, Padded(FieldList(KC), i), KG, Padded(FieldList(KD), i)))])

\* C26: Padding on length mismatch.  When the fields of one template list
\* object resolve into per-field lists of different lengths (some source
\* items lack a field), forward application does not fail, the merged output
\* list has as many entries as the longest per-field list, and entries that
\* have no value of their own for a field take it from the first merged
\* item, so no entry is left holding an unexpanded 'schemaless_list' marker.
C26_Padding ==
    (pc = "translated" /\ Len(FieldList(KC)) # Len(FieldList(KD))) =>
        /\ result.st = "ok"
        /\ TranslatedOutput[KK] = PaddedList

-----------------------------------------------------------------------------
(* Two calls of Translate for two standards and sources of one shape        *)

\* A second standard on disk, next to the standard s.
STD2 == <<"t">>
IsolateFiles == MapSet(StandardFiles, StandardFile(STD2), Marshal(Obj([k \in {KF} |-> Str(<<>>)])))

\* The first caller translates {"a": "x"} to the standard s, the second a
\* document of the same shape to the standard t or to the standard s.
IsolateCalls ==
    {[c \in Callers |-> IF c = "c1" THEN [standard |-> STD, doc |-> [k \in {KA} |-> Str(VX)]]
                        ELSE call] :
       call \in [standard : {STD2, STD},
                 doc : {[k \in {KA} |-> Str(VX)], Pair(KA, Str(VY), KA1, Str(VX))}]}

InitIsolate ==
    /\ pc = [c \in Callers |-> "idle"]
    /\ source \in [apiKey : {TRUE}, call : IsolateCalls]
    /\ arg = [c \in Callers |-> NoLocals]
    /\ result = [c \in Callers |-> Null]
    /\ result2 = Null
    /\ cache = <<>>
    /\ files = IsolateFiles
    /\ calls = 0

SpecIsolate == InitIsolate /\ [][NextFlight]_vars

\* The two calls are for different standards and sources of one keyToken.
TwoStandards ==
    /\ source.call["c1"].standard # source.call["c2"].standard
    /\ arg["c1"].keyToken = arg["c2"].keyToken

\* C27: Template isolation between concurrent calls.  Under any interleaving
\* of concurrent Translate calls, the template a call applies in
\* runJsonTranslation (read back by GetStructureFromCache) is the template
\* that this same call loaded or generated for its own standard (the
\* inputStructure it passed to SetStructureCache), even when another call
\* with a different standard and a source of the same keyToken runs at the
\* same time.
C27_TemplateIsolation ==
    \A c \in Callers :
       (TwoStandards /\ arg[c].applied # Null) => arg[c].applied = arg[c].inputStructure

====
